---------------------------- MODULE Spec2Model ----------------------------
(***************************************************************************)
(* Model of the rule-based extraction pipelines of the KGEB repository.   *)
(*                                                                         *)
(* A text line is modelled by the captures the repository's regular        *)
(* expressions take from it: a record whose `kind` says which family of    *)
(* patterns matches the line and whose other fields are the captured       *)
(* groups.  Python values are tagged tuples, so that None, 0, "" and the   *)
(* other values stay distinct and Python's truthiness can be computed.     *)
(***************************************************************************)
EXTENDS Integers, Sequences, FiniteSets, TLC

VARIABLES
    doc_lines,          \* kgeb.extractors: the doc_lines argument
    entities_schema,    \* kgeb.extractors: the entities_schema argument (its keys)
    ln_i,               \* kgeb.extract_entities: position of `for ln in doc_lines`
    entities,           \* kgeb.extract_entities: the local table `entities`
    companies_seen,     \* kgeb.extract_entities: company name -> its record (by index)
    extracted,          \* kgeb.extract_entities: the table as the scan loop left it
    ke_pc,              \* kgeb.extract_entities: "scan", "done", "raised" or "idle"
    rel_lines,          \* relation extraction: the lines of the text, in the order given
    rel_perm,           \* kgeb.extract_relations: the same lines in a second order
    relations_schema,   \* relation extraction: the keys of the relations schema
    kr_out,             \* kgeb.extract_relations(rel_lines): NotCalled, Raised or the table
    kr_out2,            \* kgeb.extract_relations(rel_perm): NotCalled, Raised or the table
    rx_entities,        \* relation_extraction.RelationExtractor: self.entities
    rx_out,             \* relation_extraction: what extract_all(text) returned
    ex_text,            \* entity_extractor: the lines of the text given to extractor 1
    ex_perm,            \* entity_extractor: the same lines in a second order (extractor 2)
    ex,                 \* entity_extractor: the EntityExtractor instances 1 and 2
    ex_given,           \* entity_extractor: lines given so far to an instance that is reused
    ex_last,            \* entity_extractor: the last call on the reused instance
    ex_texts,           \* entity_extractor: the texts given to the reused instance, each
                        \* with 1 (given once) or 2 (given again)
    re,                 \* relation_extractor: the RelationExtractor instance
    re_given,           \* relation_extractor: number of lines given to the instance so far
    re_result,          \* relation_extractor: how the last call ended
    re_log,             \* relation_extractor: per type, the records matched so far, in order
    ee_lines,           \* entity_extraction / src.extractors: the lines of the input text
    ee_out,             \* entity_extraction: what EntityExtractor.extract_all returned
    ee_out2,            \* entity_extraction: what a second run of extract_all returned
    ee_rel,             \* relation_extraction: extract_all on the text and table of ee_out
    sx_out,             \* src.extractors: what extract_all returned
    ev_pred,            \* evaluators: the predicted entity table
    ev_gold,            \* evaluators: the gold entity table
    ev_rels,            \* evaluators: the predicted relation table
    ev_out,             \* evaluators: the call made and what it returned
    sj_pc,              \* save_json: where each writer stands
    sj_tmp,             \* save_json: the file each writer has open for writing
    sj_files,           \* save_json: the content of every file, a sequence of chunks
    sj_dest,            \* save_json: the file the destination path names
    sj_rd,              \* save_json: the reader of the destination path
    sj_seen,            \* save_json: the contents that reads of the destination returned
    sj_last,            \* save_json: the writer whose os.replace came last
    cl_docs,            \* cli: the documents of the documents file
    cl_exists,          \* cli: which of the input files exist
    cl_fs,              \* cli: the output files written, with their content
    cl_out,             \* cli and src.extractor: the call made and how it ended
    program             \* the program of the repository that this run executes

keVars == <<doc_lines, entities_schema, ln_i, entities, companies_seen, extracted, ke_pc>>
relVars == <<rel_lines, rel_perm, relations_schema, kr_out, kr_out2, rx_entities, rx_out>>

exVars == <<ex_text, ex_perm, ex, ex_given, ex_last, ex_texts>>

reVars == <<re, re_given, re_result, re_log>>

eeVars == <<ee_lines, ee_out, ee_out2, ee_rel, sx_out>>

evVars == <<ev_pred, ev_gold, ev_rels, ev_out>>

sjVars == <<sj_pc, sj_tmp, sj_files, sj_dest, sj_rd, sj_seen, sj_last>>

clVars == <<cl_docs, cl_exists, cl_fs, cl_out>>

vars == <<keVars, relVars, exVars, reVars, eeVars, evVars, sjVars, clVars, program>>

\* what the actions of one program leave alone: the other programs
keOthers == <<relVars, exVars, reVars, eeVars, evVars, sjVars, clVars, program>>
relOthers == <<keVars, exVars, reVars, eeVars, evVars, sjVars, clVars, program>>
exOthers == <<keVars, relVars, reVars, eeVars, evVars, sjVars, clVars, program>>
reOthers == <<keVars, relVars, exVars, eeVars, evVars, sjVars, clVars, program>>
eeOthers == <<keVars, relVars, exVars, reVars, evVars, sjVars, clVars, program>>
evOthers == <<keVars, relVars, exVars, reVars, eeVars, sjVars, clVars, program>>
sjOthers == <<keVars, relVars, exVars, reVars, eeVars, evVars, clVars, program>>
clOthers == <<keVars, relVars, exVars, reVars, eeVars, evVars, sjVars, program>>

---------------------------------------------------------------------------
(* Bounds of the model *)

\* longest document (number of lines) given to an extractor
MaxLines == 3

---------------------------------------------------------------------------
(* Python values *)

None == <<"none">>
Str(s) == <<"str", s>>
Num(n) == <<"int", n>>
\* a date string "YYYY-MM-DD", held as the number YYYYMMDD: the strings have a
\* fixed width, so Python's string order on them is the order of these numbers
Date(n) == <<"date", n>>

\* Python truthiness of a value: None, 0 and "" are falsy
Truthy(v) == v \notin {None, Num(0), Str("")}

\* range of a sequence
Range(s) == {s[j] : j \in DOMAIN s}

---------------------------------------------------------------------------
(* Input lines *)

PersonNames == {"Ann", "Bob"}
CompanyNames == {"Acme"}
Ages == {0, 30, 31}
\* "" is the project name that `"P1,".split(",")` leaves after strip()
ProjectLists == {<<"P1">>, <<"P1", "">>}

WorksLines == [kind : {"works"}, name : PersonNames, age : Ages,
               company : CompanyNames, position : {"Dev"}]
ManagesLines == [kind : {"manages"}, manager : {"Ann"}, projects : ProjectLists]
ProjectLines == [kind : {"project"}, name : {"P1"}, start_date : {20230115},
                 end_date : {20230630, 20241231}]
IndustryLines == [kind : {"industry"}, company : CompanyNames,
                  industry : {"Tech", "Finance"}]
\* a line no pattern matches, and a line that is empty after strip()
OtherLines == {[kind |-> "other"], [kind |-> "blank"]}

KELines == WorksLines \cup ManagesLines \cup ProjectLines \cup IndustryLines
             \cup OtherLines

SeqsUpTo(S, n) == UNION {[1..k -> S] : k \in 0..n}


\* all orderings of the lines of a document
Orderings(s) ==
    {[j \in DOMAIN s |-> s[f[j]]] :
        f \in {g \in [DOMAIN s -> DOMAIN s] : \A a, b \in DOMAIN s : g[a] = g[b] => a = b}}

\* a function that has not been called, and a call that ended in an exception
NotCalled == [status |-> "not called"]
Raised == [status |-> "raised"]
ReturnedValue(v) == [status |-> "returned", value |-> v]
Returned(out) == out.status = "returned"

---------------------------------------------------------------------------
(* The programs a specification does not run stay as constructed *)

KEIdle ==
    /\ doc_lines = <<>> /\ entities_schema = {} /\ ln_i = 0 /\ entities = <<>>
    /\ companies_seen = <<>> /\ extracted = <<>> /\ ke_pc = "idle"

RelIdle ==
    /\ rel_lines = <<>> /\ rel_perm = <<>> /\ relations_schema = {}
    /\ kr_out = NotCalled /\ kr_out2 = NotCalled
    /\ rx_entities = <<>> /\ rx_out = NotCalled

EXIdle ==
    /\ ex_text = <<>> /\ ex_perm = <<>> /\ ex = <<>>
    /\ ex_given = 0 /\ ex_last = NotCalled /\ ex_texts = <<>>

REIdle == re = <<>> /\ re_given = 0 /\ re_result = NotCalled /\ re_log = <<>>

EEIdle ==
    /\ ee_lines = <<>> /\ ee_out = NotCalled /\ sx_out = NotCalled
    /\ ee_out2 = NotCalled /\ ee_rel = NotCalled

EVIdle == ev_pred = <<>> /\ ev_gold = <<>> /\ ev_rels = <<>> /\ ev_out = NotCalled

SJIdle ==
    /\ sj_pc = <<>> /\ sj_tmp = <<>> /\ sj_files = <<>> /\ sj_dest = -1
    /\ sj_rd = <<>> /\ sj_seen = {} /\ sj_last = 0

CLIdle == cl_docs = <<>> /\ cl_exists = <<>> /\ cl_fs = <<>> /\ cl_out = NotCalled

OthersIdle(family) ==
    /\ family = "CL" \/ CLIdle
    /\ family = "SJ" \/ SJIdle
    /\ family = "EV" \/ EVIdle
    /\ family = "KE" \/ KEIdle
    /\ family = "Rel" \/ RelIdle
    /\ family = "EX" \/ EXIdle
    /\ family = "RE" \/ REIdle
    /\ family = "EE" \/ EEIdle

---------------------------------------------------------------------------
(* kgeb.extractors.extract_entities *)

\* the schemas given to kgeb.extractors: the keys of entities.json that the
\* extractor fills, and the schema of tests/test_multi_document.py (no Project)
KESchemas == {{"Person", "Company", "Project"}, {"Person", "Company"}}

\* the literal "2023-11-07" that decides a project's status
StatusCutoff == 20231107

PersonRecord(name, age, position) ==
    [name |-> name, age |-> age, position |-> position, department |-> None]
CompanyRecord(name, industry) ==
    [name |-> name, industry |-> industry, sector |-> None, location |-> None]
ProjectRecord(name, start, end, status) ==
    [name |-> name, start_date |-> start, end_date |-> end, status |-> status,
     budget |-> None]

\* the outcome of one pass of the scan loop: the table and companies_seen, or
\* raised = TRUE when indexing the table with a type the schema lacks (KeyError)
Scan(ents, seen) == [raised |-> FALSE, entities |-> ents, companies_seen |-> seen]
KeyError(ents, seen) == [raised |-> TRUE, entities |-> ents, companies_seen |-> seen]

HasName(items, name) == \E j \in DOMAIN items : items[j].name = name

\* a line matched by WORKS_AT_RE: the person is always appended, the company
\* only when companies_seen does not hold it yet
KEWorksAt(ents, seen, ln) ==
    IF "Person" \notin DOMAIN ents THEN KeyError(ents, seen)
    ELSE LET e1 == [ents EXCEPT !["Person"] =
                       Append(@, PersonRecord(Str(ln.name), Num(ln.age), Str(ln.position)))]
         IN  IF ln.company \in DOMAIN seen THEN Scan(e1, seen)
             ELSE IF "Company" \notin DOMAIN e1 THEN KeyError(e1, seen)
             ELSE Scan([e1 EXCEPT !["Company"] =
                           Append(@, CompanyRecord(Str(ln.company), None))],
                       seen @@ (ln.company :> Len(e1["Company"]) + 1))

\* a line matched by PROJECT_LINE_RE
KEProjectLine(ents, seen, ln) ==
    IF "Project" \notin DOMAIN ents THEN KeyError(ents, seen)
    ELSE Scan([ents EXCEPT !["Project"] =
                  Append(@, ProjectRecord(Str(ln.name), Date(ln.start_date),
                                          Date(ln.end_date),
                                          IF ln.end_date >= StatusCutoff
                                          THEN Str("Ongoing") ELSE Str("Closed")))],
              seen)

\* `for p in projects_list`: a project is created only if none has its name
RECURSIVE KEAddProjects(_, _, _)
KEAddProjects(ents, seen, projects) ==
    IF projects = <<>> THEN Scan(ents, seen)
    ELSE IF "Project" \notin DOMAIN ents THEN KeyError(ents, seen)
    ELSE LET p == Str(Head(projects))
         IN  KEAddProjects(
                 IF HasName(ents["Project"], p) THEN ents
                 ELSE [ents EXCEPT !["Project"] =
                          Append(@, ProjectRecord(p, None, None, None))],
                 seen, Tail(projects))

\* a line matched by MANAGES_LINE_RE, LEADS_LINE_RE or OVERSEES_LINE_RE
KEManages(ents, seen, ln) ==
    IF "Person" \notin DOMAIN ents THEN KeyError(ents, seen)
    ELSE KEAddProjects(
             IF HasName(ents["Person"], Str(ln.manager)) THEN ents
             ELSE [ents EXCEPT !["Person"] =
                      Append(@, PersonRecord(Str(ln.manager), None, None))],
             seen, ln.projects)

\* a line matched by COMPANY_INDUSTRY_RE: companies_seen[company] is the very
\* record held in the Company list, so the assignment rewrites the list entry
KEIndustry(ents, seen, ln) ==
    IF ln.company \in DOMAIN seen
    THEN Scan([ents EXCEPT !["Company"][seen[ln.company]].industry = Str(ln.industry)],
              seen)
    ELSE IF "Company" \notin DOMAIN ents THEN KeyError(ents, seen)
    ELSE Scan([ents EXCEPT !["Company"] =
                  Append(@, CompanyRecord(Str(ln.company), Str(ln.industry)))],
              seen @@ (ln.company :> Len(ents["Company"]) + 1))

\* the body of `for ln in doc_lines`
KEProcessLine(ents, seen, ln) ==
    CASE ln.kind = "works" -> KEWorksAt(ents, seen, ln)
      [] ln.kind = "project" -> KEProjectLine(ents, seen, ln)
      [] ln.kind = "manages" -> KEManages(ents, seen, ln)
      [] ln.kind = "industry" -> KEIndustry(ents, seen, ln)
      [] OTHER -> Scan(ents, seen)

\* key = it.get("name") or json.dumps(it, sort_keys=True)
DedupKey(it) == IF Truthy(it.name) THEN <<"name", it.name>> ELSE <<"json", it>>

\* `for k, v in it.items(): if not old.get(k) and v: old[k] = v`
MergeMissing(old, it) ==
    [k \in DOMAIN old \cup {a \in DOMAIN it : a \notin DOMAIN old /\ Truthy(it[a])} |->
        IF k \in DOMAIN it /\ Truthy(it[k]) /\ (k \notin DOMAIN old \/ ~Truthy(old[k]))
        THEN it[k] ELSE old[k]]

\* the de-duplication of one list: `unique` so far, then the remaining items
RECURSIVE DedupFrom(_, _)
DedupFrom(unique, items) ==
    IF items = <<>> THEN unique
    ELSE LET it == Head(items)
             hit == {j \in DOMAIN unique : DedupKey(unique[j]) = DedupKey(it)}
         IN  IF hit /= {}
             THEN LET j == CHOOSE j \in hit : TRUE
                  IN  DedupFrom([unique EXCEPT ![j] = MergeMissing(@, it)], Tail(items))
             ELSE DedupFrom(Append(unique, it), Tail(items))

\* the de-duplication pass left out: every list is returned as scanned
DedupSkipped(items) == items

DedupByName(items) == DedupFrom(<<>>, items)

KEInit ==
    /\ program = "kgeb.extract_entities"
    /\ OthersIdle("KE")
    /\ doc_lines \in SeqsUpTo(KELines, MaxLines)
    /\ entities_schema \in KESchemas
    /\ ln_i = 1
    /\ entities = [t \in entities_schema |-> <<>>]
    /\ companies_seen = <<>>
    /\ extracted = <<>>
    /\ ke_pc = "scan"

\* one pass of `for ln in doc_lines`
KEScanLine ==
    /\ ke_pc = "scan"
    /\ ln_i <= Len(doc_lines)
    /\ LET r == KEProcessLine(entities, companies_seen, doc_lines[ln_i])
       IN  /\ entities' = r.entities
           /\ companies_seen' = r.companies_seen
           /\ ke_pc' = IF r.raised THEN "raised" ELSE "scan"
    /\ ln_i' = ln_i + 1
    /\ UNCHANGED <<doc_lines, entities_schema, extracted>>
    /\ UNCHANGED keOthers

\* the loop is over: de-duplicate every list and return the table
KEDedupReturn ==
    /\ ke_pc = "scan"
    /\ ln_i > Len(doc_lines)
    /\ extracted' = entities
    /\ entities' = [t \in DOMAIN entities |-> DedupByName(entities[t])]
    /\ ke_pc' = "done"
    /\ UNCHANGED <<doc_lines, entities_schema, ln_i, companies_seen>>
    /\ UNCHANGED keOthers

KENext == KEScanLine \/ KEDedupReturn

SpecKE == KEInit /\ [][KENext]_vars

---------------------------------------------------------------------------
(* Claims on kgeb.extractors.extract_entities *)

\* positions of the records of a list that carry the given name
WithName(items, name) == {j \in DOMAIN items : items[j].name = name}

\* C1: every list returned by kgeb.extractors.extract_entities holds at most
\* one record per name.
C1_UniquePerName ==
    ke_pc = "done" =>
        \A t \in DOMAIN entities : \A a, b \in DOMAIN entities[t] :
            entities[t][a].name = entities[t][b].name => a = b

\* two works-at lines name the same person and one Person record is returned
C1_Witness ==
    /\ ke_pc = "done"
    /\ \E a, b \in DOMAIN doc_lines :
          /\ a < b
          /\ doc_lines[a].kind = "works" /\ doc_lines[b].kind = "works"
          /\ doc_lines[a].name = doc_lines[b].name
          /\ Cardinality(WithName(entities["Person"], Str(doc_lines[a].name))) = 1

\* C3: merge monotonicity: an attribute that some extracted record of a name
\* knows (non-null, 0 included) is non-null in the merged record of that name.
C3_MergeKeepsKnown ==
    ke_pc = "done" =>
        \A t \in DOMAIN extracted : \A j \in DOMAIN extracted[t] :
            \A k \in DOMAIN extracted[t][j] :
                extracted[t][j][k] /= None =>
                    \E m \in WithName(entities[t], extracted[t][j].name) :
                        entities[t][m][k] /= None

\* C4: last-wins: when two extracted records of one name know different values
\* of an attribute, the merged record holds the value of the later one.
C4_LastWins ==
    ke_pc = "done" =>
        \A t \in DOMAIN extracted : \A a, b \in DOMAIN extracted[t] :
            \A k \in DOMAIN extracted[t][b] :
                /\ a < b
                /\ extracted[t][a].name = extracted[t][b].name
                /\ extracted[t][a][k] /= None /\ extracted[t][b][k] /= None
                /\ extracted[t][a][k] /= extracted[t][b][k]
                /\ \A c \in DOMAIN extracted[t] :
                      c > b /\ extracted[t][c].name = extracted[t][b].name
                          => extracted[t][c][k] = None
                => \A m \in WithName(entities[t], extracted[t][b].name) :
                       entities[t][m][k] = extracted[t][b][k]

---------------------------------------------------------------------------
(* kgeb.extractors.extract_relations *)

\* the lines of the relation extractors: one person, two companies, so that a
\* person can be stated to work at both; a verb kgeb matches and one it does not
RelWorksLines == [kind : {"works"}, name : {"Ann"}, age : {30},
                  company : {"Acme", "Bolt"}, position : {"Dev"}]
RelManagesLines == [kind : {"manages"}, verb : {"manages", "directs"},
                    manager : {"Ann"}, projects : {<<"P1">>, <<"P1", "P2">>}]
\* a line that holds a city name; its first word is taken for the company
RelCityLines == {[kind |-> "city", first_word |-> "Acme", cities |-> {"Shenzhen"}]}
RelLines == RelWorksLines \cup RelManagesLines \cup RelCityLines \cup {[kind |-> "other"]}

\* longest text given to a relation extractor
MaxRelLines == 3

\* the relation types kgeb.extract_relations fills
KRTypes == {"WorksAt", "Manages", "PersonWorkedOnProject", "OwnsProject", "LocatedIn"}
\* relations.json with and without LocatedIn, and the empty schema
KRSchemas == {KRTypes, KRTypes \ {"LocatedIn"}, {}}

\* MANAGES_LINE_RE, LEADS_LINE_RE and OVERSEES_LINE_RE
KRManagesVerbs == {"manages", "leads", "oversees"}

\* the state of the function between its loops; raised: a KeyError ended it
KRState(rels, pc) == [raised |-> FALSE, relations |-> rels, person_company |-> pc]
KRKeyError(st) == [st EXCEPT !.raised = TRUE]

\* `for p in projects_list` of the first loop
RECURSIVE KRAddManaged(_, _, _)
KRAddManaged(st, manager, projects) ==
    IF st.raised \/ projects = <<>> THEN st
    ELSE IF "Manages" \notin DOMAIN st.relations
              \/ "PersonWorkedOnProject" \notin DOMAIN st.relations THEN KRKeyError(st)
    ELSE LET r == [person |-> Str(manager), project |-> Str(Head(projects))]
         IN  KRAddManaged([st EXCEPT !.relations["Manages"] = Append(@, r),
                                     !.relations["PersonWorkedOnProject"] = Append(@, r)],
                          manager, Tail(projects))

\* the first loop: WorksAt, Manages and PersonWorkedOnProject, and the
\* person-to-company mapping, in which a later line replaces an earlier one
RECURSIVE KRFirstLoop(_, _)
KRFirstLoop(st, lines) ==
    IF st.raised \/ lines = <<>> THEN st
    ELSE LET ln == Head(lines)
             pc == st.person_company
         IN  IF ln.kind = "works"
             THEN IF "WorksAt" \notin DOMAIN st.relations THEN KRKeyError(st)
                  ELSE KRFirstLoop(
                           [st EXCEPT
                              !.person_company =
                                  [n \in DOMAIN pc \cup {Str(ln.name)} |->
                                      IF n = Str(ln.name) THEN Str(ln.company) ELSE pc[n]],
                              !.relations["WorksAt"] =
                                  Append(@, [person |-> Str(ln.name),
                                             company |-> Str(ln.company)])],
                           Tail(lines))
             ELSE IF ln.kind = "manages" /\ ln.verb \in KRManagesVerbs
             THEN KRFirstLoop(KRAddManaged(st, ln.manager, ln.projects), Tail(lines))
             ELSE KRFirstLoop(st, Tail(lines))

\* `for rel in relations["Manages"]`: the company of the manager owns the project
RECURSIVE KROwnsFrom(_, _)
KROwnsFrom(st, managed) ==
    IF st.raised \/ managed = <<>> THEN st
    ELSE LET rel == Head(managed)
         IN  IF rel.person \in DOMAIN st.person_company
             THEN IF "OwnsProject" \notin DOMAIN st.relations THEN KRKeyError(st)
                  ELSE KROwnsFrom([st EXCEPT !.relations["OwnsProject"] =
                                      Append(@, [company |-> st.person_company[rel.person],
                                                 project |-> rel.project])],
                                  Tail(managed))
             ELSE KROwnsFrom(st, Tail(managed))

KRInferOwns(st) ==
    IF st.raised THEN st
    ELSE IF "Manages" \notin DOMAIN st.relations THEN KRKeyError(st)
    ELSE KROwnsFrom(st, st.relations["Manages"])

\* relations.setdefault("LocatedIn", []).append(...)
KRAppendLocated(rels, r) ==
    [t \in DOMAIN rels \cup {"LocatedIn"} |->
        IF t = "LocatedIn"
        THEN (IF t \in DOMAIN rels THEN Append(rels[t], r) ELSE <<r>>)
        ELSE rels[t]]

\* the third loop: for c in ["Shenzhen", "Hangzhou"], on every line
RECURSIVE KRLocated(_, _)
KRLocated(st, lines) ==
    IF st.raised \/ lines = <<>> THEN st
    ELSE LET ln == Head(lines)
             cs == IF ln.kind = "city" THEN ln.cities ELSE {}
             r1 == IF "Shenzhen" \in cs
                   THEN KRAppendLocated(st.relations,
                                        [company |-> Str(ln.first_word), city |-> Str("Shenzhen")])
                   ELSE st.relations
             r2 == IF "Hangzhou" \in cs
                   THEN KRAppendLocated(r1, [company |-> Str(ln.first_word), city |-> Str("Hangzhou")])
                   ELSE r1
         IN  KRLocated([st EXCEPT !.relations = r2], Tail(lines))

\* the last loop's body on one list: keep the first record of every
\* json.dumps(it, sort_keys=True) key
RECURSIVE DedupExactFrom(_, _)
DedupExactFrom(unique, items) ==
    IF items = <<>> THEN unique
    ELSE IF Head(items) \in Range(unique) THEN DedupExactFrom(unique, Tail(items))
    ELSE DedupExactFrom(Append(unique, Head(items)), Tail(items))

KRDedup(st) ==
    IF st.raised THEN Raised
    ELSE ReturnedValue([t \in DOMAIN st.relations |->
                           DedupExactFrom(<<>>, st.relations[t])])

\* extract_relations(doc_lines, entities_schema, relations_schema)
KRExtractRelations(lines, schema) ==
    KRDedup(KRLocated(KRInferOwns(KRFirstLoop(KRState([t \in schema |-> <<>>], <<>>), lines)),
                      lines))

KRInit ==
    /\ program = "kgeb.extract_relations"
    /\ OthersIdle("Rel")
    /\ rx_entities = <<>>
    /\ rx_out = NotCalled
    /\ rel_lines \in SeqsUpTo(RelLines, MaxRelLines)
    /\ rel_perm \in Orderings(rel_lines)
    /\ relations_schema \in KRSchemas
    /\ kr_out = NotCalled
    /\ kr_out2 = NotCalled

\* extract_relations is called on the lines in the first order
KRExtractFirst ==
    /\ program = "kgeb.extract_relations"
    /\ kr_out = NotCalled
    /\ kr_out' = KRExtractRelations(rel_lines, relations_schema)
    /\ UNCHANGED <<rel_lines, rel_perm, relations_schema, kr_out2, rx_entities, rx_out>>
    /\ UNCHANGED relOthers

\* extract_relations is called on the lines in the second order
KRExtractSecond ==
    /\ program = "kgeb.extract_relations"
    /\ kr_out2 = NotCalled
    /\ kr_out2' = KRExtractRelations(rel_perm, relations_schema)
    /\ UNCHANGED <<rel_lines, rel_perm, relations_schema, kr_out, rx_entities, rx_out>>
    /\ UNCHANGED relOthers

KRNext == KRExtractFirst \/ KRExtractSecond

\* as sets of records, per relation type
SetEqualTables(a, b) ==
    /\ DOMAIN a = DOMAIN b
    /\ \A t \in DOMAIN a : Range(a[t]) = Range(b[t])

\* C7: kgeb.extractors.extract_relations returns set-equal relation lists for
\* any two orderings of the same lines, OwnsProject included.
C7_OrderIndependent ==
    Returned(kr_out) /\ Returned(kr_out2) => SetEqualTables(kr_out.value, kr_out2.value)

---------------------------------------------------------------------------
(* relation_extraction.RelationExtractor *)

\* entity tables handed to the constructor: one that knows every name of the
\* lines, one that knows only some and names a department head, one with no entity
RXTableFull ==
    [Person |-> <<[name |-> Str("Ann"), age |-> Num(30), position |-> Str("Dev"),
                   department |-> Str("Engineering")]>>,
     Company |-> <<[name |-> Str("Acme"), industry |-> Str("Tech"), sector |-> Str("Tech"),
                    location |-> Str("Unknown")],
                   [name |-> Str("Bolt"), industry |-> Str("Tech"), sector |-> Str("Tech"),
                    location |-> Str("Unknown")]>>,
     Project |-> <<ProjectRecord(Str("P1"), None, None, None),
                   ProjectRecord(Str("P2"), None, None, None)>>,
     Department |-> <<[name |-> Str("Engineering"), head |-> None,
                       employee_count |-> Num(1)]>>]
RXTablePartial ==
    [Person |-> <<PersonRecord(Str("Ann"), Num(30), None)>>,
     Company |-> <<CompanyRecord(Str("Acme"), None)>>,
     Project |-> <<ProjectRecord(Str("P1"), None, None, None)>>,
     Department |-> <<[name |-> Str("Engineering"), head |-> Str("Ann"),
                       employee_count |-> Num(1)]>>]
RXTableNone == [Person |-> <<>>]
RXTables == {RXTableFull, RXTablePartial, RXTableNone}

\* self.entities.get(t, []) and record.get(k)
GetList(ents, t) == IF t \in DOMAIN ents THEN ents[t] ELSE <<>>
GetAttr(r, k) == IF k \in DOMAIN r THEN r[k] ELSE None

\* the keys of person_index, company_index and project_index
RXIndex(ents, t) == {r.name : r \in Range(GetList(ents, t))}

RECURSIVE Concat(_)
Concat(ss) == IF ss = <<>> THEN <<>> ELSE Head(ss) \o Concat(Tail(ss))

\* extract_works_at: a match is kept when both names are known entities
RXWorksAt(lines, ents) ==
    Concat([j \in DOMAIN lines |->
        IF /\ lines[j].kind = "works"
           /\ Str(lines[j].name) \in RXIndex(ents, "Person")
           /\ Str(lines[j].company) \in RXIndex(ents, "Company")
        THEN <<[person |-> Str(lines[j].name), company |-> Str(lines[j].company)]>>
        ELSE <<>>])

\* _extract_project_management_relation(text, verb)
RXManagement(lines, ents, verb) ==
    Concat([j \in DOMAIN lines |->
        IF lines[j].kind = "manages" /\ lines[j].verb = verb
        THEN Concat([q \in DOMAIN lines[j].projects |->
                 IF /\ Str(lines[j].manager) \in RXIndex(ents, "Person")
                    /\ Str(lines[j].projects[q]) \in RXIndex(ents, "Project")
                 THEN <<[person |-> Str(lines[j].manager),
                         project |-> Str(lines[j].projects[q])]>>
                 ELSE <<>>])
        ELSE <<>>])

\* the verbs of the seven project-management relations, in the order in which
\* extract_owns_project collects them, and the relation type of each
RXVerbs == <<"manages", "leads", "oversees", "supervises", "handles", "coordinates",
             "directs">>
RXVerbType ==
    [manages |-> "ManagesProject", leads |-> "LeadsProject",
     oversees |-> "OverseesProject", supervises |-> "SupervisesProject",
     handles |-> "HandlesProject", coordinates |-> "CoordinatesProject",
     directs |-> "DirectsProject"]

\* {rel["person"]: rel["company"] for rel in works_at_relations}: the last wins
PersonToCompany(works) ==
    [p \in {w.person : w \in Range(works)} |->
        works[CHOOSE j \in DOMAIN works :
                 /\ works[j].person = p
                 /\ \A m \in DOMAIN works : works[m].person = p => m <= j].company]

\* the works-at matches taken without the check against the entity indices
RXWorksAtUnchecked(lines, ents) ==
    Concat([j \in DOMAIN lines |->
        IF lines[j].kind = "works"
        THEN <<[person |-> Str(lines[j].name), company |-> Str(lines[j].company)]>>
        ELSE <<>>])

\* the works-at relations that extract_owns_project maps persons to companies with
RXOwnsWorksAt(lines, ents) == RXWorksAt(lines, ents)

\* extract_owns_project
RXOwnsProject(lines, ents) ==
    LET person_to_company == PersonToCompany(RXOwnsWorksAt(lines, ents))
        all_project_relations ==
            Concat([v \in DOMAIN RXVerbs |-> RXManagement(lines, ents, RXVerbs[v])])
        owned == Concat([j \in DOMAIN all_project_relations |->
                    LET rel == all_project_relations[j]
                    IN  IF /\ rel.person \in DOMAIN person_to_company
                           /\ Truthy(person_to_company[rel.person])
                           /\ Truthy(rel.project)
                        THEN <<[company |-> person_to_company[rel.person],
                                project |-> rel.project]>>
                        ELSE <<>>])
    IN  DedupExactFrom(<<>>, owned)

\* extract_belongs_to, extract_has_position, extract_located_in and
\* extract_manages_department: a relation per entity whose two attributes are truthy
RXPairs(items, ka, ra, kb, rb) ==
    Concat([j \in DOMAIN items |->
        IF Truthy(GetAttr(items[j], ka)) /\ Truthy(GetAttr(items[j], kb))
        THEN <<(ra :> GetAttr(items[j], ka)) @@ (rb :> GetAttr(items[j], kb))>>
        ELSE <<>>])

\* the loop that ends extract_all left out
RXNoFill(relations, schema) == relations

\* `for rel_type in self.relations_schema.keys(): if rel_type not in relations`
RXFillDeclared(relations, schema) ==
    [t \in DOMAIN relations \cup schema |->
        IF t \in DOMAIN relations THEN relations[t] ELSE <<>>]

\* extract_all(text)
RXExtractAll(lines, ents, schema) ==
    RXFillDeclared(
        [BelongsTo |-> RXPairs(GetList(ents, "Person"), "name", "person",
                               "department", "department"),
         WorksAt |-> RXWorksAt(lines, ents),
         ManagesProject |-> RXManagement(lines, ents, "manages"),
         LeadsProject |-> RXManagement(lines, ents, "leads"),
         OverseesProject |-> RXManagement(lines, ents, "oversees"),
         SupervisesProject |-> RXManagement(lines, ents, "supervises"),
         HandlesProject |-> RXManagement(lines, ents, "handles"),
         CoordinatesProject |-> RXManagement(lines, ents, "coordinates"),
         DirectsProject |-> RXManagement(lines, ents, "directs"),
         OwnsProject |-> RXOwnsProject(lines, ents),
         HasPosition |-> RXPairs(GetList(ents, "Person"), "name", "person",
                                 "position", "position"),
         ManagesDepartment |-> RXPairs(GetList(ents, "Department"), "head", "person",
                                       "name", "department"),
         LocatedIn |-> RXPairs(GetList(ents, "Company"), "name", "company",
                               "location", "location")],
        schema)

RXInit ==
    /\ program = "relation_extraction"
    /\ OthersIdle("Rel")
    /\ rel_lines \in SeqsUpTo(RelLines, MaxRelLines)
    /\ rel_perm = <<>>
    /\ relations_schema \in KRSchemas
    /\ rx_entities \in RXTables
    /\ kr_out = NotCalled /\ kr_out2 = NotCalled
    /\ rx_out = NotCalled

\* RelationExtractor(relations_schema, entities).extract_all(text)
RXCallExtractAll ==
    /\ program = "relation_extraction"
    /\ rx_out = NotCalled
    /\ rx_out' = ReturnedValue(RXExtractAll(rel_lines, rx_entities, relations_schema))
    /\ UNCHANGED <<rel_lines, rel_perm, relations_schema, kr_out, kr_out2, rx_entities>>
    /\ UNCHANGED relOthers

RelInit == KRInit \/ RXInit
RelNext == KRExtractFirst \/ KRExtractSecond \/ RXCallExtractAll

SpecRel == RelInit /\ [][RelNext]_vars

---------------------------------------------------------------------------
(* Claims on relation_extraction.extract_all and the chained inference *)

\* the relation types that extract_all computes itself
RXTypes == {"BelongsTo", "WorksAt", "OwnsProject", "HasPosition", "ManagesDepartment",
            "LocatedIn"} \cup {RXVerbType[RXVerbs[v]] : v \in DOMAIN RXVerbs}

\* C9: every relation type declared in the schema is a key of the map that
\* relation_extraction.extract_all returns, with an empty list for a type
\* that no extraction fills.
C9_DeclaredTypesPresent ==
    Returned(rx_out) =>
        \A t \in relations_schema :
            /\ t \in DOMAIN rx_out.value
            /\ t \notin RXTypes => rx_out.value[t] = <<>>

\* the schema declares a type that extract_all does not compute, and it is
\* returned with an empty list
C9_Witness ==
    /\ Returned(rx_out)
    /\ \E t \in relations_schema \ RXTypes : rx_out.value[t] = <<>>

\* C10: every OwnsProject record {company, project} that extract_all or
\* kgeb's extract_relations returns has a person with a WorksAt record for
\* the company and a management record for the project in the same result.
C10_OwnsProjectSupported ==
    /\ Returned(rx_out) =>
          \A r \in Range(rx_out.value["OwnsProject"]) :
              \E w \in Range(rx_out.value["WorksAt"]) :
                  /\ w.company = r.company
                  /\ \E v \in DOMAIN RXVerbs :
                        [person |-> w.person, project |-> r.project]
                            \in Range(rx_out.value[RXVerbType[RXVerbs[v]]])
    /\ Returned(kr_out) /\ "OwnsProject" \in DOMAIN kr_out.value =>
          \A r \in Range(kr_out.value["OwnsProject"]) :
              \E w \in Range(kr_out.value["WorksAt"]) :
                  /\ w.company = r.company
                  /\ [person |-> w.person, project |-> r.project]
                         \in Range(kr_out.value["Manages"])

\* extract_all inferred an OwnsProject record from a text in which the person
\* is said to work at two companies
C10_Witness ==
    /\ Returned(rx_out)
    /\ rx_out.value["OwnsProject"] /= <<>>
    /\ Len(rx_out.value["WorksAt"]) >= 2

---------------------------------------------------------------------------
(* entity_extractor.EntityExtractor *)

\* the lines of entity_extractor: a person stated with two ages, a company
\* stated without and with an "and <sector>" part, a project with two end
\* dates, and a manager whose first name is, or is not, a common first name
EXLines ==
    [kind : {"works"}, name : {"John Doe"}, age : {32, 33}, company : {"OpenAI"},
     position : {"a Researcher"}]
    \cup [kind : {"industry"}, company : {"OpenAI"}, industry : {"Tech"},
          sector : {"", "Finance"}]
    \cup [kind : {"project"}, name : {"Alpha"}, start_date : {20230115},
          end_date : {20230630, 20231231}]
    \cup [kind : {"manages"}, manager : {"John Doe", "Ann Lee"}, count : {2}]
    \cup {[kind |-> "other"]}

\* longest text given to an EntityExtractor
MaxExLines == 2

\* the moments at which a call reads datetime.now(): its date, some time after
\* midnight
EXNows == {20230320, 20230615, 20240101}

EXSchema == {"Person", "Company", "Project", "Department", "Position", "Technology",
             "Location", "Team", "Product", "Client"}

\* _is_person_name: two words, the first of them in common_first_names; of the
\* first words of the managers of the manages lines only "John" is in the set
FirstWord == ("John Doe" :> "John") @@ ("Ann Lee" :> "Ann")
EXIsPersonName(text) == FirstWord[text] \in {"John"}

\* _infer_project_status: end_dt is the midnight that starts the end date
EXInferProjectStatus(end_date, now) ==
    IF end_date <= now THEN Str("Completed")
    ELSE IF end_date \div 100 = now \div 100 THEN Str("In Progress")
    ELSE Str("Ongoing")

\* what the patterns of _process_line take from a line: the entity type and the
\* record that is appended if the entity key was not seen, or no match
NoMatch == [type |-> "none"]
EXMatch(ln, now) ==
    CASE ln.kind = "works" ->
           [type |-> "Person",
            record |-> PersonRecord(Str(ln.name), Num(ln.age), Str(ln.position))]
      [] ln.kind = "project" ->
           [type |-> "Project",
            record |-> ProjectRecord(Str(ln.name), Date(ln.start_date), Date(ln.end_date),
                                     EXInferProjectStatus(ln.end_date, now))]
      [] ln.kind = "industry" ->
           [type |-> "Company",
            record |-> [name |-> Str(ln.company), industry |-> Str(ln.industry),
                        sector |-> IF ln.sector = "" THEN None ELSE Str(ln.sector),
                        location |-> None]]
      [] ln.kind = "manages" /\ ~EXIsPersonName(ln.manager) ->
           [type |-> "Team",
            record |-> [name |-> Str(ln.manager), size |-> Num(ln.count),
                        focus_area |-> None]]
      [] OTHER -> NoMatch

\* the record of every match is appended, seen or not
EXAppendSeen(st, mt) ==
    IF mt = NoMatch THEN st
    ELSE [st EXCEPT !.seen_entities = @ \cup {<<mt.type, mt.record.name>>},
                    !.extracted_entities[mt.type] = Append(@, mt.record)]

\* `if entity_key not in self.seen_entities`: add the key, append the record
EXAppendMatch(st, mt) ==
    IF mt = NoMatch \/ <<mt.type, mt.record.name>> \in st.seen_entities THEN st
    ELSE [st EXCEPT !.seen_entities = @ \cup {<<mt.type, mt.record.name>>},
                    !.extracted_entities[mt.type] = Append(@, mt.record)]

\* `for line in lines: self._process_line(line)`
RECURSIVE EXProcessLines(_, _, _)
EXProcessLines(st, lines, now) ==
    IF lines = <<>> THEN st
    ELSE EXProcessLines(EXAppendMatch(st, EXMatch(Head(lines), now)), Tail(lines), now)

\* EntityExtractor()
EXNew == [extracted_entities |-> [t \in EXSchema |-> <<>>], seen_entities |-> {},
          calls |-> 0, now |-> 0]

EXInit ==
    /\ program = "entity_extractor"
    /\ OthersIdle("EX")
    /\ ex_text \in SeqsUpTo(EXLines, MaxExLines)
    /\ ex_perm \in Orderings(ex_text)
    /\ ex = <<EXNew, EXNew>>
    /\ ex_given = 0
    /\ ex_last = NotCalled
    /\ ex_texts = <<>>

\* extractor i is given its text: extractor 1 ex_text, extractor 2 ex_perm
EXExtractFromText(i) ==
    /\ ex[i].calls = 0
    /\ \E now \in EXNows :
          ex' = [ex EXCEPT ![i] =
                    [EXProcessLines(ex[i], IF i = 1 THEN ex_text ELSE ex_perm, now)
                        EXCEPT !.calls = 1, !.now = now]]
    /\ UNCHANGED <<ex_text, ex_perm, ex_given, ex_last, ex_texts>>
    /\ UNCHANGED exOthers

EXNext == \E i \in {1, 2} : EXExtractFromText(i)

SpecEX == EXInit /\ [][EXNext]_vars

\* number of lines given to a reused instance, over all its extract_from_text calls
MaxExGiven == 3

\* one EntityExtractor() that is called again and again
EXReuseInit ==
    /\ program = "entity_extractor"
    /\ OthersIdle("EX")
    /\ ex_text = <<>> /\ ex_perm = <<>>
    /\ ex = <<EXNew>>
    /\ ex_given = 0
    /\ ex_last = NotCalled
    /\ ex_texts = <<>>

\* extract_from_text(text) on the reused instance: the lines are processed on
\* top of what the instance holds, and self.extracted_entities is returned
EXExtractAgain ==
    /\ \E text \in SeqsUpTo(EXLines, MaxExGiven - ex_given),
          now \in {n \in EXNows : n >= ex[1].now} :    \* the clock does not run back
          LET st == EXProcessLines(ex[1], text, now)
          IN  /\ ex' = <<[st EXCEPT !.calls = 1, !.now = now]>>
              /\ ex_last' = [status |-> "returned", value |-> st.extracted_entities,
                             text |-> text, now |-> now,
                             before |-> ex[1].extracted_entities]
              /\ ex_given' = ex_given + Len(text)
              /\ ex_texts' = IF text \in DOMAIN ex_texts
                             THEN [ex_texts EXCEPT ![text] = 2]
                             ELSE (text :> 1) @@ ex_texts
    /\ UNCHANGED <<ex_text, ex_perm>>
    /\ UNCHANGED exOthers

EXReuseNext == EXExtractAgain

SpecEXReuse == EXReuseInit /\ [][EXReuseNext]_vars

---------------------------------------------------------------------------
(* Claims on entity_extractor.EntityExtractor *)

\* C5: attribute accretion: when the first match of an entity leaves an
\* attribute null and a later line matches the same entity with a value for
\* it, the stored record ends with that attribute non-null.
C5_AttributeAccretion ==
    ex[1].calls = 1 =>
        \A a, b \in DOMAIN ex_text :
            LET ma == EXMatch(ex_text[a], ex[1].now)
                mb == EXMatch(ex_text[b], ex[1].now)
            IN  /\ a < b
                /\ ma /= NoMatch /\ mb /= NoMatch
                /\ ma.type = mb.type /\ ma.record.name = mb.record.name
                /\ \A c \in 1..(a - 1) :
                      LET mc == EXMatch(ex_text[c], ex[1].now)
                      IN  mc = NoMatch \/ mc.type /= ma.type
                            \/ mc.record.name /= ma.record.name
                => \A k \in DOMAIN ma.record :
                       ma.record[k] = None /\ mb.record[k] /= None =>
                           \A j \in WithName(ex[1].extracted_entities[ma.type],
                                             ma.record.name) :
                               ex[1].extracted_entities[ma.type][j][k] /= None

\* C6: order independence: two fresh extractors given two orderings of the
\* same lines (here at the same moment) return the same set of records for
\* every entity type.
C6_OrderIndependent ==
    ex[1].calls = 1 /\ ex[2].calls = 1 /\ ex[1].now = ex[2].now =>
        \A t \in EXSchema :
            Range(ex[1].extracted_entities[t]) = Range(ex[2].extracted_entities[t])

---------------------------------------------------------------------------
(* relation_extractor.RelationExtractor *)

\* the lines of relation_extractor, by the pattern that matches them
RELines ==
    [kind : {"works"}, name : {"John Doe"}, company : {"OpenAI"}]
    \cup [kind : {"manages"}, manager : {"John Doe"},
          projects : {<<"Alpha">>, <<"Alpha", "Beta">>}]
    \cup [kind : {"project"}, name : {"Alpha"}, start_date : {20230115},
          end_date : {20230630}]
    \cup [kind : {"industry"}, company : {"OpenAI"}, industry : {"Tech"}]

\* number of lines given to one instance, over all its extract_from_text calls
MaxReLines == 3

\* the project names of the entity table given to a call (project_names)
REProjectNames == {{"Alpha", "Beta"}, {"Alpha"}}

\* the ids of relations.json that _extract_relations_from_line appends to
RETypes == {"WorksAt", "ManagesProject", "ProjectTimeline", "OperatesIn", "CollaborationOn"}
\* relations.json as shipped, and {"relations": []} when the file is missing
RESchemas == {RETypes, {}}

REFound(type, a, b, record) == [type |-> type, key |-> <<a, b, type>>, record |-> record]

\* patterns 2 and 5 on the project list of a manages line
REManaged(ln, project_names) ==
    Concat([q \in DOMAIN ln.projects |->
        IF ln.projects[q] /= "" /\ ln.projects[q] \in project_names
        THEN <<REFound("ManagesProject", ln.manager, ln.projects[q],
                       [person |-> Str(ln.manager), project |-> Str(ln.projects[q])])>>
        ELSE <<>>])
RECollaboration(ln) ==
    Concat([q \in DOMAIN ln.projects |->
        IF ln.projects[q] /= ""
        THEN <<REFound("CollaborationOn", ln.manager, ln.projects[q],
                       [team_lead |-> Str(ln.manager), project |-> Str(ln.projects[q])])>>
        ELSE <<>>])

\* the relations that the five patterns of _extract_relations_from_line find
\* in a line, in the order in which the method reaches them
REMatches(ln, project_names) ==
    CASE ln.kind = "works" ->
           <<REFound("WorksAt", ln.name, ln.company,
                     [person |-> Str(ln.name), company |-> Str(ln.company)])>>
      [] ln.kind = "manages" -> REManaged(ln, project_names) \o RECollaboration(ln)
      [] ln.kind = "project" ->
           <<REFound("ProjectTimeline", ln.name,
                     ToString(ln.start_date) \o " to " \o ToString(ln.end_date),
                     [project |-> Str(ln.name), start_date |-> Date(ln.start_date),
                      end_date |-> Date(ln.end_date)])>>
      [] ln.kind = "industry" ->
           <<REFound("OperatesIn", ln.company, ln.industry,
                     [company |-> Str(ln.company), industry |-> Str(ln.industry)])>>
      [] OTHER -> <<>>

\* the matches of a whole text
REAllMatches(lines, project_names) ==
    Concat([j \in DOMAIN lines |-> REMatches(lines[j], project_names)])

\* the record is appended without a look at seen_relations
REAppendAlways(st, mt) ==
    IF st.raised THEN st
    ELSE IF mt.type \notin DOMAIN st.extracted_relations THEN [st EXCEPT !.raised = TRUE]
    ELSE [st EXCEPT !.extracted_relations[mt.type] = Append(@, mt.record)]

\* `if rel_key not in self.seen_relations`: the key is added, then the record
\* is appended to the list of its type, a KeyError if the schema lacks the type
REAppend(st, mt) ==
    IF st.raised \/ mt.key \in st.seen_relations THEN st
    ELSE IF mt.type \notin DOMAIN st.extracted_relations
    THEN [st EXCEPT !.seen_relations = @ \cup {mt.key}, !.raised = TRUE]
    ELSE [st EXCEPT !.seen_relations = @ \cup {mt.key},
                    !.extracted_relations[mt.type] = Append(@, mt.record)]

RECURSIVE REProcess(_, _)
REProcess(st, matches) ==
    IF matches = <<>> THEN st
    ELSE REProcess(REAppend(st, Head(matches)), Tail(matches))

\* the records of one type among the matches that were reached before a KeyError
RECURSIVE REReached(_, _, _)
REReached(st, matches, type) ==
    IF matches = <<>> \/ st.raised THEN <<>>
    ELSE (IF Head(matches).type = type THEN <<Head(matches).record>> ELSE <<>>)
             \o REReached(REAppend(st, Head(matches)), Tail(matches), type)

\* RelationExtractor(relations_schema_path)
REInit ==
    /\ program = "relation_extractor"
    /\ OthersIdle("RE")
    /\ \E schema \in RESchemas :
          re = [extracted_relations |-> [t \in schema |-> <<>>], seen_relations |-> {},
                raised |-> FALSE]
    /\ re_given = 0
    /\ re_result = NotCalled
    /\ re_log = [t \in RETypes |-> <<>>]

\* extract_from_text(text, entities)
REExtractFromText ==
    /\ \E lines \in SeqsUpTo(RELines, MaxReLines - re_given), project_names \in REProjectNames :
          LET start == [re EXCEPT !.raised = FALSE]
              matches == REAllMatches(lines, project_names)
              st == REProcess(start, matches)
          IN  /\ re' = st
              /\ re_result' = IF st.raised THEN Raised
                              ELSE ReturnedValue(st.extracted_relations)
              /\ re_log' = [t \in RETypes |-> re_log[t] \o REReached(start, matches, t)]
              /\ re_given' = re_given + Len(lines)
    /\ UNCHANGED reOthers

RENext == REExtractFromText

SpecRE == REInit /\ [][RENext]_vars

\* C8: after any sequence of extract_from_text calls on one RelationExtractor
\* whose schema declares every emitted type, no list holds two equal records,
\* and each list is the records matched so far with the first of every group
\* of equal records kept.
C8_RelationsDeduplicated ==
    DOMAIN re.extracted_relations = RETypes =>
        \A t \in RETypes :
            /\ \A a, b \in DOMAIN re.extracted_relations[t] :
                  re.extracted_relations[t][a] = re.extracted_relations[t][b] => a = b
            /\ re.extracted_relations[t] = DedupExactFrom(<<>>, re_log[t])

\* a manages line was given again and its relations were not recorded twice
C8_Witness ==
    /\ DOMAIN re.extracted_relations = RETypes
    /\ Len(re_log["ManagesProject"]) > Len(re.extracted_relations["ManagesProject"])
    /\ Len(re.extracted_relations["ManagesProject"]) >= 2

---------------------------------------------------------------------------
(* entity_extraction.EntityExtractor and src.extractors: the two pipelines  *)
(* that read the person, company and project sentences of a text            *)

\* the lines of the text: works-at sentences "<name>, age <n>, works at
\* <company> as <article> <position>.", "<company> operates in the <industry>
\* industry.", "<company> specializes in <industry> and <sector>.", a project
\* sentence and a manages sentence; every line ends with a full stop
EEWorksLines ==
    [kind : {"works"}, name : {"John Doe"}, age : {32, 33}, company : {"OpenAI"},
     article : {"a"}, position : {"Researcher"}]
    \cup [kind : {"works"}, name : {"John Doe"}, age : {33}, company : {"OpenAI"},
          article : {"an"}, position : {"Engineer"}]
EELines ==
    EEWorksLines
    \cup {[kind |-> "industry", verb |-> "operates", company |-> "OpenAI",
           industry |-> "Technology", sector |-> ""],
          [kind |-> "industry", verb |-> "specializes", company |-> "OpenAI",
           industry |-> "Research", sector |-> "Safety"]}
    \cup [kind : {"project"}, name : {"Alpha"}, start_date : {20230115},
          end_date : {20230630}]
    \cup [kind : {"manages"}, verb : {"manages"}, manager : {"John Doe"},
          projects : {<<"Alpha", "Beta">>}]

\* longest text given to the two pipelines
MaxEeLines == 3

\* the dates at which extract_all reads datetime.now(), some time after midnight
EENows == {20230101, 20230320, 20240101}

\* the lines of a text that a pattern matches, in text order
OfKind(lines, kind) == LET Matches(ln) == ln.kind = kind IN SelectSeq(lines, Matches)

\* list(d.values()) of a dict filled by `if key not in d: d[key] = record`
RECURSIVE FirstPerKey(_, _, _)
FirstPerKey(acc, recs, key) ==
    IF recs = <<>> THEN acc
    ELSE LET r == Head(recs)
             seen == \E i \in DOMAIN acc : acc[i][key] = r[key]
         IN  FirstPerKey(IF seen THEN acc ELSE Append(acc, r), Tail(recs), key)

\* _infer_department: the keyword that the lower-cased position contains
EEInferDepartment(position) ==
    CASE position = "Engineer" -> "Engineering"
      [] position = "Researcher" -> "R&D"
      [] OTHER -> "General"

\* extract_person: one record is appended for every match of the pattern
EEExtractPerson(lines) ==
    LET matches == OfKind(lines, "works")
    IN  [i \in DOMAIN matches |->
            [name |-> Str(matches[i].name), age |-> Num(matches[i].age),
             position |-> Str(matches[i].position),
             department |-> Str(EEInferDepartment(matches[i].position))]]

\* _infer_location: location_map.get(company_name, "Unknown")
EEInferLocation(company_name) ==
    IF company_name = "OpenAI" THEN "San Francisco" ELSE "Unknown"

\* extract_company: the patterns are tried one after the other, each over the
\* whole text, and a company name in seen_companies is skipped
EEExtractCompany(lines) ==
    LET Operates(ln) == ln.kind = "industry" /\ ln.verb = "operates"
        Specializes(ln) == ln.kind = "industry" /\ ln.verb = "specializes"
        matches == SelectSeq(lines, Operates) \o SelectSeq(lines, Specializes)
        records == [i \in DOMAIN matches |->
                      [name |-> Str(matches[i].company),
                       industry |-> Str(matches[i].industry),
                       sector |-> IF matches[i].sector = "" THEN Str(matches[i].industry)
                                  ELSE Str(matches[i].sector),
                       location |-> Str(EEInferLocation(matches[i].company))]]
    IN  FirstPerKey(<<>>, records, "name")

\* _determine_project_status: start and end are the midnights that start the
\* two dates, now is later than the midnight of its date
EEDetermineProjectStatus(start_date, end_date, now) ==
    IF now < start_date THEN "Planned"
    ELSE IF now < end_date THEN "Ongoing"
    ELSE "Completed"

\* _estimate_budget: max(10000, days * 1000); from 2023-01-15 to 2023-06-30
\* there are 166 days
EEEstimateBudget(start_date, end_date) ==
    LET days == IF <<start_date, end_date>> = <<20230115, 20230630>> THEN 166 ELSE 0
    IN  IF days * 1000 > 10000 THEN days * 1000 ELSE 10000

\* extract_project: one record for every match of the pattern
EEExtractProject(lines, now) ==
    LET matches == OfKind(lines, "project")
    IN  [i \in DOMAIN matches |->
            [name |-> Str(matches[i].name), start_date |-> Date(matches[i].start_date),
             end_date |-> Date(matches[i].end_date),
             status |-> Str(EEDetermineProjectStatus(matches[i].start_date,
                                                     matches[i].end_date, now)),
             budget |-> Num(EEEstimateBudget(matches[i].start_date,
                                             matches[i].end_date))]]

\* extract_department: one record per department value, counting its persons
EEExtractDepartment(persons) ==
    LET Count(d) == Cardinality({i \in DOMAIN persons : persons[i].department = d})
        records == [i \in DOMAIN persons |->
                      [name |-> persons[i].department, head |-> None,
                       employee_count |-> Num(Count(persons[i].department))]]
    IN  FirstPerKey(<<>>, records, "name")

\* extract_position with _infer_level and _estimate_salary_range: one record
\* per title; no position of EEWorksLines holds a level keyword, "Engineer"
\* holds the salary keyword "engineer"
EEExtractPosition(persons) ==
    LET records == [i \in DOMAIN persons |->
                      [title |-> persons[i].position, level |-> Str("Mid"),
                       salary_range |-> IF persons[i].position = Str("Engineer")
                                        THEN Str("$90k-$150k") ELSE Str("$70k-$120k")]]
    IN  FirstPerKey(<<>>, records, "title")

\* extract_location with _infer_country: one record per company location
EEExtractLocation(companies) ==
    LET records == [i \in DOMAIN companies |->
                      [city |-> companies[i].location,
                       country |-> IF companies[i].location = Str("San Francisco")
                                   THEN Str("USA") ELSE Str("Unknown"),
                       office_type |-> Str("Headquarters")]]
    IN  FirstPerKey(<<>>, records, "city")

\* EntityExtractor.extract_all
EEExtractAll(lines, now) ==
    LET persons == EEExtractPerson(lines)
        companies == EEExtractCompany(lines)
    IN  [Person |-> persons, Company |-> companies,
         Project |-> EEExtractProject(lines, now),
         Department |-> EEExtractDepartment(persons),
         Position |-> EEExtractPosition(persons), Technology |-> <<>>,
         Location |-> EEExtractLocation(companies), Team |-> <<>>, Product |-> <<>>,
         Client |-> <<>>]

\* d[key] = record for each record in turn, then list(d.values()): a key keeps
\* the place of its first record and the value of its last
DictPut(acc, r, key) ==
    IF \E i \in DOMAIN acc : acc[i][key] = r[key]
    THEN [i \in DOMAIN acc |-> IF acc[i][key] = r[key] THEN r ELSE acc[i]]
    ELSE Append(acc, r)
RECURSIVE DictPutAll(_, _, _)
DictPutAll(acc, recs, key) ==
    IF recs = <<>> THEN acc ELSE DictPutAll(DictPut(acc, Head(recs), key), Tail(recs), key)

\* the third group of the works-at pattern of src.extractors is greedy and
\* the "as a <position>" group after it is optional: the company captured is
\* the text up to the full stop and the position group is always empty
SXCompany(ln) == ln.company \o " as " \o ln.article \o " " \o ln.position

\* extract_persons: one record is appended for every matching line
SXExtractPersons(lines) ==
    LET matches == OfKind(lines, "works")
    IN  [i \in DOMAIN matches |->
            [name |-> Str(matches[i].name), age |-> Num(matches[i].age),
             position |-> Str(""), department |-> Str("")]]

\* extract_companies: an "operates in the" line stores a new record under the
\* name, a "specializes in" line stores one or overwrites the industry, which
\* the pattern takes up to the full stop
SXExtractCompanies(lines) ==
    LET matches == OfKind(lines, "industry")
        records == [i \in DOMAIN matches |->
                      [name |-> Str(matches[i].company),
                       industry |-> IF matches[i].verb = "operates"
                                    THEN Str(matches[i].industry)
                                    ELSE Str(matches[i].industry \o " and "
                                             \o matches[i].sector),
                       sector |-> Str(""), location |-> Str("")]]
    IN  DictPutAll(<<>>, records, "name")

\* extract_projects: projects[name] = record
SXExtractProjects(lines) ==
    LET matches == OfKind(lines, "project")
        records == [i \in DOMAIN matches |->
                      [name |-> Str(matches[i].name),
                       start_date |-> Date(matches[i].start_date),
                       end_date |-> Date(matches[i].end_date), status |-> Str(""),
                       budget |-> None]]
    IN  DictPutAll(<<>>, records, "name")

\* extract_relations, grouped by type as extract_all groups them: three passes
\* over the lines, and only the types that have a relation are keys
SXExtractRelations(lines) ==
    LET works == OfKind(lines, "works")
        manages == OfKind(lines, "manages")
        Operates(ln) == ln.kind = "industry" /\ ln.verb = "operates"
        operates == SelectSeq(lines, Operates)
        all == [EmployeeOf |->
                    [i \in DOMAIN works |->
                        [person |-> Str(works[i].name),
                         company |-> Str(SXCompany(works[i]))]],
                ManagesProject |->
                    Concat([i \in DOMAIN manages |->
                        [j \in DOMAIN manages[i].projects |->
                            [person |-> Str(manages[i].manager),
                             project |-> Str(manages[i].projects[j])]]]),
                CompanyInIndustry |->
                    [i \in DOMAIN operates |->
                        [company |-> Str(operates[i].company),
                         industry |-> Str(operates[i].industry)]]]
    IN  [t \in {u \in DOMAIN all : all[u] # <<>>} |-> all[t]]

\* src.extractors.extract_all
SXExtractAll(lines) ==
    [entities |-> [Person |-> SXExtractPersons(lines),
                   Company |-> SXExtractCompanies(lines),
                   Project |-> SXExtractProjects(lines)],
     relations |-> SXExtractRelations(lines)]

EEInit ==
    /\ program = "entity_extraction"
    /\ OthersIdle("EE")
    /\ ee_lines \in SeqsUpTo(EELines, MaxEeLines)
    /\ ee_out = NotCalled
    /\ ee_out2 = NotCalled
    /\ ee_rel = NotCalled
    /\ sx_out = NotCalled

\* EntityExtractor(schema).extract_all(text) on the text of ee_lines
EECallExtractAll ==
    /\ ee_out = NotCalled
    /\ \E now \in EENows : ee_out' = ReturnedValue(EEExtractAll(ee_lines, now))
    /\ UNCHANGED <<ee_lines, ee_out2, ee_rel, sx_out>>
    /\ UNCHANGED eeOthers

\* a second run of extract_all on the same text and schema, at its own moment
EECallExtractAllAgain ==
    /\ Returned(ee_out)
    /\ ee_out2 = NotCalled
    /\ \E now \in EENows : ee_out2' = ReturnedValue(EEExtractAll(ee_lines, now))
    /\ UNCHANGED <<ee_lines, ee_out, ee_rel, sx_out>>
    /\ UNCHANGED eeOthers

\* RelationExtractor(relations_schema, entities).extract_all(text) of
\* relation_extraction on the same text, entities being the table of ee_out
EECallRelations ==
    /\ Returned(ee_out)
    /\ ee_rel = NotCalled
    /\ ee_rel' = ReturnedValue(RXExtractAll(ee_lines, ee_out.value, RXTypes))
    /\ UNCHANGED <<ee_lines, ee_out, ee_out2, sx_out>>
    /\ UNCHANGED eeOthers

\* src.extractors.extract_all(lines) on the same lines
SXCallExtractAll ==
    /\ sx_out = NotCalled
    /\ sx_out' = ReturnedValue(SXExtractAll(ee_lines))
    /\ UNCHANGED <<ee_lines, ee_out, ee_out2, ee_rel>>
    /\ UNCHANGED eeOthers

EENext == EECallExtractAll \/ EECallExtractAllAgain \/ EECallRelations \/ SXCallExtractAll

SpecEE == EEInit /\ [][EENext]_vars

\* a works-at sentence stands twice in the text
RepeatedWorksLine(name) ==
    \E i, j \in DOMAIN ee_lines :
        /\ i < j
        /\ ee_lines[i] = ee_lines[j]
        /\ ee_lines[i].kind = "works"
        /\ ee_lines[i].name = name

PersonsNamed(persons, name) == {i \in DOMAIN persons : persons[i].name = Str(name)}

\* C2: when the text holds the same works-at sentence twice, extract_all of
\* entity_extraction and extract_all of src.extractors each return exactly one
\* Person record with that name.
C2_OnePersonPerRepeatedLine ==
    \A ln \in EEWorksLines :
        RepeatedWorksLine(ln.name) =>
            /\ Returned(ee_out) =>
                  Cardinality(PersonsNamed(ee_out.value.Person, ln.name)) = 1
            /\ Returned(sx_out) =>
                  Cardinality(PersonsNamed(sx_out.value.entities.Person, ln.name)) = 1

\* C11: for a text that is one works-at sentence, extract_all of
\* entity_extraction followed by extract_all of relation_extraction yields a
\* Person record with department null, a Company record named after the
\* company, and the WorksAt relation of the person and the company.
C11_WorksAtScenario ==
    Len(ee_lines) = 1 /\ ee_lines[1].kind = "works" /\ Returned(ee_rel) =>
        /\ \E i \in DOMAIN ee_out.value.Person :
              /\ ee_out.value.Person[i].name = Str(ee_lines[1].name)
              /\ ee_out.value.Person[i].department = None
        /\ \E i \in DOMAIN ee_out.value.Company :
              ee_out.value.Company[i].name = Str(ee_lines[1].company)
        /\ \E i \in DOMAIN ee_rel.value.WorksAt :
              ee_rel.value.WorksAt[i] = [person |-> Str(ee_lines[1].name),
                                         company |-> Str(ee_lines[1].company)]

\* C12: two runs of extract_all on the same text return equal tables, at
\* whatever moments the two runs are made.
C12_ExtractAllIdempotent ==
    Returned(ee_out) /\ Returned(ee_out2) => ee_out.value = ee_out2.value

\* C13: the table that extract_from_text(t) returns depends only on t: on an
\* instance that has processed another text it is the table that a fresh
\* instance returns for t (at the same moment).
C13_RunIsStateless ==
    Returned(ex_last) =>
        ex_last.value = EXProcessLines(EXNew, ex_last.text, ex_last.now).extracted_entities

---------------------------------------------------------------------------
(* The evaluators: src.evaluator, kgeb.evaluator, kgeb.evaluate and          *)
(* evaluator.Evaluator                                                       *)

\* most records of one type in a predicted or gold table
MaxEvalRecords == 2
\* largest count given to precision_recall_f1
MaxCount == 4

\* entities.json: the attribute list of each type
EVSchema == [Person |-> <<"name", "age">>, Position |-> <<"title", "level">>]

\* the records of the tables: persons that agree in their name only, that carry
\* an undeclared key or lack a declared one, and positions, whose identity key
\* is title
EVGoldPersons ==
    {[name |-> Str("Ann"), age |-> Num(30)], [name |-> Str("Ann"), age |-> Num(31)],
     [name |-> Str("Bob"), age |-> Num(30)]}
EVPersons ==
    EVGoldPersons \cup {[name |-> Str("Ann"), age |-> Num(30), nickname |-> Str("A")],
                        [name |-> Str("Bob")]}
EVPositions ==
    {[title |-> Str("Dev"), level |-> Str("Mid")],
     [title |-> Str("Dev"), level |-> Str("Senior")]}
EVTables(persons) ==
    [Person : SeqsUpTo(persons, MaxEvalRecords), Position : SeqsUpTo(EVPositions, 1)]

\* a / b as Python computes it for two small integers, b > 0: the quotient,
\* held as a fraction in lowest terms
RECURSIVE GCD(_, _)
GCD(a, b) == IF b = 0 THEN a ELSE GCD(b, a % b)
Frac(a, b) == IF a = 0 THEN <<0, 1>> ELSE <<a \div GCD(a, b), b \div GCD(a, b)>>

\* sum(f[k] for k in f)
RECURSIVE SumOf(_)
SumOf(f) ==
    IF DOMAIN f = {} THEN 0
    ELSE LET k == CHOOSE x \in DOMAIN f : TRUE
         IN  f[k] + SumOf([x \in DOMAIN f \ {k} |-> f[x]])

\* precision_recall_f1(tp, fp, fn) of kgeb.evaluator, and the last three
\* statements of compute_prf: 2 * p * r / (p + r) of two fractions
KGPrecisionRecallF1(tp, fp, fn) ==
    LET precision == IF tp + fp > 0 THEN Frac(tp, tp + fp) ELSE <<0, 1>>
        recall == IF tp + fn > 0 THEN Frac(tp, tp + fn) ELSE <<0, 1>>
        sum == precision[1] * recall[2] + recall[1] * precision[2]
    IN  [precision |-> precision, recall |-> recall,
         f1 |-> IF sum > 0 THEN Frac(2 * precision[1] * recall[1], sum) ELSE <<0, 1>>]

\* compute_prf(pred, gold) with the false positives counted on the list
SXComputePrfOnList(pred, gold) ==
    LET tp == Cardinality(Range(pred) \cap Range(gold))
    IN  KGPrecisionRecallF1(tp, Len(pred) - tp, Cardinality(Range(gold) \ Range(pred)))

\* compute_prf(pred, gold) of src.evaluator: pred_set and gold_set are the sets
\* of the serialized records
SXComputePrf(pred, gold) ==
    LET pred_set == Range(pred)
        gold_set == Range(gold)
    IN  KGPrecisionRecallF1(Cardinality(pred_set \cap gold_set),
                            Cardinality(pred_set \ gold_set),
                            Cardinality(gold_set \ pred_set))

\* evaluate_entities(pred_path, gold_path) of src.evaluator; evaluate_relations
\* is the same code on the relation tables
SXEvaluateEntities(pred, gold) ==
    LET types == DOMAIN pred \cup DOMAIN gold
        p_list(t) == GetList(pred, t)
        g_list(t) == GetList(gold, t)
        both(t) == Cardinality(Range(p_list(t)) \cap Range(g_list(t)))
        Max0(n) == IF n > 0 THEN n ELSE 0
        all_tp == SumOf([t \in types |-> both(t)])
        all_fp == SumOf([t \in types |-> Max0(Len(p_list(t)) - both(t))])
        all_fn == SumOf([t \in types |-> Max0(Len(g_list(t)) - both(t))])
    IN  [t \in types \cup {"_aggregate"} |->
            IF t = "_aggregate" THEN KGPrecisionRecallF1(all_tp, all_fp, all_fn)
            ELSE SXComputePrf(p_list(t), g_list(t))
                     @@ [predicted |-> Len(p_list(t)), gold |-> Len(g_list(t))]]

\* _match_entity_list(predicted, gold, key): tp, fp, fn on the truthy values of
\* the key
KGMatchEntityList(predicted, gold, key) ==
    LET Keys(items) == {v \in {GetAttr(r, key) : r \in Range(items)} : Truthy(v)}
        pred_names == Keys(predicted)
        gold_names == Keys(gold)
    IN  [tp |-> Cardinality(pred_names \cap gold_names),
         fp |-> Cardinality(pred_names \ gold_names),
         fn |-> Cardinality(gold_names \ pred_names)]

\* round(100 * a / b, 2) and f"{100 * a / b:.2f}", held as hundredths of a
\* percent; with b below 32 no quotient lies halfway between two hundredths
Hundredths(a, b) == (2 * 10000 * a + b) \div (2 * b)

\* evaluate_entities(pred_entities, gold_path) of kgeb.evaluator; gold is the
\* table at gold_path, read when exists, the file being there, is true
KGEvaluateEntities(pred_entities, gold, exists) ==
    IF exists
    THEN LET per == [t \in DOMAIN EVSchema |->
                        KGMatchEntityList(GetList(pred_entities, t), GetList(gold, t),
                                          "name")]
             metrics == KGPrecisionRecallF1(SumOf([t \in DOMAIN per |-> per[t].tp]),
                                            SumOf([t \in DOMAIN per |-> per[t].fp]),
                                            SumOf([t \in DOMAIN per |-> per[t].fn]))
         IN  [per_entity |-> per,
              overall |-> [entity_precision |-> metrics.precision,
                           entity_recall |-> metrics.recall,
                           entity_f1 |-> metrics.f1]]
    ELSE LET Okay(t) == Cardinality({i \in DOMAIN GetList(pred_entities, t) :
                            Range(EVSchema[t]) \subseteq DOMAIN GetList(pred_entities, t)[i]})
             counts == [t \in DOMAIN EVSchema |->
                          [passed |-> Okay(t), n |-> Len(GetList(pred_entities, t))]]
             total_ok == SumOf([t \in DOMAIN counts |-> counts[t].passed])
             total == SumOf([t \in DOMAIN counts |-> counts[t].n])
         IN  [per_entity |-> <<>>, overall |-> <<>>,
              schema_compliance |-> IF total > 0 THEN Hundredths(total_ok, total) ELSE 0,
              details |-> counts]

\* the records of a table, each with its type
EVItems(table) == {<<t, i>> : t \in DOMAIN table, i \in 1..MaxEvalRecords + 1} \cap
                  UNION {{<<t, i>> : i \in DOMAIN table[t]} : t \in DOMAIN table}

\* schema_compliance(pred_path, schema_path) of src.evaluator: a record is
\* compliant when its keys are a subset and a superset of the allowed fields
SXSchemaCompliance(pred, schema) ==
    LET Allowed(t) == IF t \in DOMAIN schema THEN Range(schema[t]) ELSE {}
        compliant == Cardinality({x \in EVItems(pred) :
                         /\ DOMAIN pred[x[1]][x[2]] \subseteq Allowed(x[1])
                         /\ Allowed(x[1]) \subseteq DOMAIN pred[x[1]][x[2]]})
        total == Cardinality(EVItems(pred))
    IN  [compliant |-> compliant, total |-> total,
         percentage |-> IF total > 0 THEN Frac(compliant * 100, total) ELSE <<0, 1>>]

\* schema_compliance(entities, schema) of kgeb.evaluate: a record is compliant
\* when it holds every required field
KGVSchemaCompliance(ents, schema) ==
    LET Required(t) == IF t \in DOMAIN schema THEN Range(schema[t]) ELSE {}
        compliant == Cardinality({x \in EVItems(ents) :
                         Required(x[1]) \subseteq DOMAIN ents[x[1]][x[2]]})
        total == Cardinality(EVItems(ents))
    IN  IF total > 0 THEN Hundredths(compliant, total) ELSE 0

\* Evaluator.evaluate_entities(predicted) of evaluator: the metrics of every
\* type of the schema and the overall ones
EVAEvaluateEntities(predicted) ==
    LET types == DOMAIN EVSchema
        Compliant(t) == Cardinality({i \in DOMAIN GetList(predicted, t) :
                            Range(EVSchema[t]) \subseteq DOMAIN GetList(predicted, t)[i]})
        Count(t) == Len(GetList(predicted, t))
        total_entities == SumOf([t \in types |-> Count(t)])
        total_compliant == SumOf([t \in types |-> Compliant(t)])
        n == Cardinality(types)
        mean == IF n > 0 THEN Frac(n, n) ELSE <<0, 1>>
    IN  [per_type |-> [t \in types |->
                          [precision |-> <<1, 1>>, recall |-> <<1, 1>>, f1 |-> <<1, 1>>,
                           schema_compliance |-> IF Count(t) > 0
                                                 THEN Frac(Compliant(t), Count(t))
                                                 ELSE <<1, 1>>,
                           count |-> Count(t)]],
         entity_precision |-> mean, entity_recall |-> mean, entity_f1 |-> mean,
         entity_schema_compliance |-> IF total_entities > 0
                                      THEN Frac(total_compliant, total_entities)
                                      ELSE <<1, 1>>]

EVEntitiesInit ==
    /\ program = "evaluate entities"
    /\ OthersIdle("EV")
    /\ ev_pred \in EVTables(EVPersons)
    /\ ev_gold \in EVTables(EVGoldPersons)
    /\ ev_rels = <<>>
    /\ ev_out = NotCalled

EVCountsInit ==
    /\ program = "precision_recall_f1"
    /\ OthersIdle("EV")
    /\ ev_pred = <<>> /\ ev_gold = <<>> /\ ev_rels = <<>>
    /\ ev_out = NotCalled

\* what a call of an evaluator returned, with the name of the function
EVReturned(fn, args, value) ==
    [status |-> "returned", fn |-> fn, args |-> args, value |-> value]

\* compute_prf(pred[t], gold[t]) of src.evaluator on the lists of one type
SXCallComputePrf ==
    /\ program = "evaluate entities"
    /\ ev_out = NotCalled
    /\ \E t \in DOMAIN EVSchema :
          ev_out' = EVReturned("compute_prf", t, SXComputePrf(ev_pred[t], ev_gold[t]))
    /\ UNCHANGED <<ev_pred, ev_gold, ev_rels>>
    /\ UNCHANGED evOthers

\* precision_recall_f1(tp, fp, fn) of kgeb.evaluator
KGCallPrecisionRecallF1 ==
    /\ program = "precision_recall_f1"
    /\ ev_out = NotCalled
    /\ \E tp, fp, fn \in 0..MaxCount :
          ev_out' = EVReturned("precision_recall_f1", <<tp, fp, fn>>,
                               KGPrecisionRecallF1(tp, fp, fn))
    /\ UNCHANGED <<ev_pred, ev_gold, ev_rels>>
    /\ UNCHANGED evOthers

\* evaluate_entities(pred_path, gold_path) of src.evaluator on the two tables
SXCallEvaluateEntities ==
    /\ program = "evaluate entities"
    /\ ev_out = NotCalled
    /\ ev_out' = EVReturned("src.evaluate_entities", <<>>,
                            SXEvaluateEntities(ev_pred, ev_gold))
    /\ UNCHANGED <<ev_pred, ev_gold, ev_rels>>
    /\ UNCHANGED evOthers

\* evaluate_entities(pred_entities, gold_path) of kgeb.evaluator, with the gold
\* file and without it
KGCallEvaluateEntities ==
    /\ program = "evaluate entities"
    /\ ev_out = NotCalled
    /\ \E exists \in BOOLEAN :
          ev_out' = EVReturned("kgeb.evaluate_entities", exists,
                               KGEvaluateEntities(ev_pred, ev_gold, exists))
    /\ UNCHANGED <<ev_pred, ev_gold, ev_rels>>
    /\ UNCHANGED evOthers

\* schema_compliance of src.evaluator and of kgeb.evaluate on the predicted table
EVCallSchemaCompliance ==
    /\ program = "evaluate entities"
    /\ ev_out = NotCalled
    /\ \/ ev_out' = EVReturned("src.schema_compliance", <<>>,
                               SXSchemaCompliance(ev_pred, EVSchema))
       \/ ev_out' = EVReturned("kgeb.schema_compliance", <<>>,
                               KGVSchemaCompliance(ev_pred, EVSchema))
    /\ UNCHANGED <<ev_pred, ev_gold, ev_rels>>
    /\ UNCHANGED evOthers

\* Evaluator(entities_schema, relations_schema).evaluate_entities(predicted)
EVACallEvaluateEntities ==
    /\ program = "evaluate entities"
    /\ ev_out = NotCalled
    /\ ev_out' = EVReturned("Evaluator.evaluate_entities", <<>>,
                            EVAEvaluateEntities(ev_pred))
    /\ UNCHANGED <<ev_pred, ev_gold, ev_rels>>
    /\ UNCHANGED evOthers

EVEntitiesNext ==
    \/ SXCallComputePrf \/ KGCallPrecisionRecallF1 \/ SXCallEvaluateEntities
    \/ KGCallEvaluateEntities \/ EVCallSchemaCompliance \/ EVACallEvaluateEntities

EVInit == EVEntitiesInit \/ EVCountsInit

SpecEvalEntities == EVInit /\ [][EVEntitiesNext]_vars

---------------------------------------------------------------------------
(* Claims on the evaluators *)

Called(fn) == Returned(ev_out) /\ ev_out.fn = fn

\* the fraction q is n / d, or 0 when d = 0
IsRatio(q, n, d) == IF d = 0 THEN q[1] = 0 ELSE q[1] * d = n * q[2]

\* the reference metric on the counts tp, fp, fn: precision, recall and their
\* harmonic mean, each 0 when its denominator is 0, and all within [0, 1]
IsReferencePrf(m, tp, fp, fn) ==
    /\ IsRatio(m.precision, tp, tp + fp)
    /\ IsRatio(m.recall, tp, tp + fn)
    /\ IF tp = 0 THEN m.f1[1] = 0 ELSE IsRatio(m.f1, 2 * tp, 2 * tp + fp + fn)
    /\ \A k \in {"precision", "recall", "f1"} :
          m[k][2] > 0 /\ 0 <= m[k][1] /\ m[k][1] <= m[k][2]

\* C14: compute_prf(pred, gold) is the reference metric on the sets P and G of
\* the records of pred and gold: TP = |P \cap G|, FP = |P \ G|, FN = |G \ P|;
\* it is 1 in all three for pred = gold non-empty; precision_recall_f1 is the
\* reference metric on its three counts.
C14_PrfIsReference ==
    /\ Called("compute_prf") =>
          LET P == Range(ev_pred[ev_out.args])
              G == Range(ev_gold[ev_out.args])
          IN  /\ IsReferencePrf(ev_out.value, Cardinality(P \cap G),
                                Cardinality(P \ G), Cardinality(G \ P))
              /\ ev_pred[ev_out.args] = ev_gold[ev_out.args] /\ P /= {} =>
                    \A k \in {"precision", "recall", "f1"} : ev_out.value[k] = <<1, 1>>
    /\ Called("precision_recall_f1") =>
          IsReferencePrf(ev_out.value, ev_out.args[1], ev_out.args[2], ev_out.args[3])

\* compute_prf was given a predicted list with a repeated record and a gold
\* list that holds this record and one that pred lacks
C14_Witness ==
    /\ Called("compute_prf")
    /\ Len(ev_pred[ev_out.args]) > Cardinality(Range(ev_pred[ev_out.args]))
    /\ ev_out.value.precision = <<1, 1>>
    /\ ev_out.value.recall = <<1, 2>>

\* C15: the '_aggregate' precision and recall of evaluate_entities are the
\* sums over the types of the counts TP, FP, FN that compute_prf uses for each
\* type: sum TP / (sum TP + sum FP) and sum TP / (sum TP + sum FN).
C15_MicroAverage ==
    Called("src.evaluate_entities") =>
        LET types == DOMAIN ev_pred \cup DOMAIN ev_gold
            P(t) == Range(GetList(ev_pred, t))
            G(t) == Range(GetList(ev_gold, t))
            tp == SumOf([t \in types |-> Cardinality(P(t) \cap G(t))])
            fp == SumOf([t \in types |-> Cardinality(P(t) \ G(t))])
            fn == SumOf([t \in types |-> Cardinality(G(t) \ P(t))])
        IN  /\ IsRatio(ev_out.value["_aggregate"].precision, tp, tp + fp)
            /\ IsRatio(ev_out.value["_aggregate"].recall, tp, tp + fn)


\* C16: in gold mode kgeb.evaluator.evaluate_entities counts, for every type of
\* the schema, the identity keys (title for Position, city for Location, name
\* for the others) found in both tables as true positives, those only
\* predicted as false positives and those only in gold as false negatives.
C16_IdentityKeyMatch ==
    (Called("kgeb.evaluate_entities") /\ ev_out.args) =>
        \A t \in DOMAIN EVSchema :
            LET key == IF t = "Position" THEN "title"
                       ELSE IF t = "Location" THEN "city" ELSE "name"
                Keys(items) == {GetAttr(r, key) : r \in Range(items)} \ {None}
                p == Keys(GetList(ev_pred, t))
                g == Keys(GetList(ev_gold, t))
            IN  ev_out.value.per_entity[t] =
                    [tp |-> Cardinality(p \cap g), fp |-> Cardinality(p \ g),
                     fn |-> Cardinality(g \ p)]

\* the records of the predicted table whose keys are exactly, and whose keys
\* are all among, the attributes declared for their type
EVExactRecords == {x \in EVItems(ev_pred) :
                      DOMAIN ev_pred[x[1]][x[2]] = Range(EVSchema[x[1]])}
EVDeclaredOnlyRecords == {x \in EVItems(ev_pred) :
                             DOMAIN ev_pred[x[1]][x[2]] \subseteq Range(EVSchema[x[1]])}

\* C17: the percentage of src.evaluator.schema_compliance and of
\* kgeb.evaluate.schema_compliance lies in [0, 100], and is 100 for every
\* predicted table all of whose records carry exactly the declared attributes.
C17_ComplianceBound ==
    /\ Called("src.schema_compliance") =>
          LET q == ev_out.value.percentage
          IN  /\ 0 <= q[1] /\ q[1] <= 100 * q[2]
              /\ EVExactRecords = EVItems(ev_pred) => q = <<100, 1>>
    /\ Called("kgeb.schema_compliance") =>
          /\ 0 <= ev_out.value /\ ev_out.value <= 10000
          /\ EVExactRecords = EVItems(ev_pred) => ev_out.value = 10000

\* C18: a record with an attribute key its type does not declare is counted
\* non-compliant by Evaluator.evaluate_entities, by the no-gold mode of
\* kgeb.evaluator.evaluate_entities and by kgeb.evaluate.schema_compliance: none
\* of them counts more compliant records than there are records without such a
\* key.
C18_UndeclaredKeysRejected ==
    LET good == Cardinality(EVDeclaredOnlyRecords)
        total == Cardinality(EVItems(ev_pred))
    IN  /\ (Called("Evaluator.evaluate_entities") /\ total > 0) =>
              LET q == ev_out.value.entity_schema_compliance
              IN  q[1] * total <= good * q[2]
        /\ (Called("kgeb.evaluate_entities") /\ ~ev_out.args) =>
              \A t \in DOMAIN EVSchema :
                  ev_out.value.details[t].passed <=
                      Cardinality({x \in EVDeclaredOnlyRecords : x[1] = t})
        /\ (Called("kgeb.schema_compliance") /\ total > 0) =>
              ev_out.value <= Hundredths(good, total)

\* ---------------------------------------------------------------------------
\* Evaluation of relations: kgeb.evaluator.evaluate_relations,
\* src.evaluator.check_relation_consistency and Evaluator.evaluate_relations.
\* A relation record is a Python dict, kept as the sequence of its
\* <<key, value>> items in insertion order; ev_pred is the entity table.
\* ---------------------------------------------------------------------------

\* the relation types in the order the tables and the schema list them, the
\* schema as Evaluator reads it and as kgeb.evaluator reads it
EVRelTypes == <<"WorksAt", "LocatedIn">>
EVRelSchema == [WorksAt |-> [source_entity |-> "Person", target_entity |-> "Company"],
                LocatedIn |-> [source_entity |-> "Company", target_entity |-> "Location"]]
EVRelArgs == [WorksAt |-> <<"person", "company">>, LocatedIn |-> <<"company", "location">>]

\* the relation records and the entity tables given to the evaluators
EVWorksAt == {<<<<"person", "Ann">>, <<"company", "Acme">>>>,
              <<<<"person", "Acme">>, <<"company", "Acme">>>>,
              <<<<"company", "Acme">>, <<"person", "Ann">>>>}
EVLocatedIn == {<<<<"company", "Acme">>, <<"location", c>>>> : c \in {"Paris", "Nowhere"}} \cup
               {<<<<"location", c>>, <<"company", "Acme">>>> : c \in {"Paris", "Nowhere"}}
EVRelTables == [WorksAt : SeqsUpTo(EVWorksAt, MaxEvalRecords),
                LocatedIn : SeqsUpTo(EVLocatedIn, 1)]
EVEntityTables == [Person : SeqsUpTo({[name |-> Str("Ann")]}, 1),
                   Company : SeqsUpTo({[name |-> Str("Acme")]}, 1),
                   Location : SeqsUpTo({[city |-> Str("Paris")]}, 1)]

\* for rel_type, entries in rels.items(): for e in entries: for k, v in
\* e.items(): every role of every record, in the order of the loops
EVRoleRefs(rels) ==
    Concat([n \in 1..Len(EVRelTypes) |->
        LET t == EVRelTypes[n]
        IN  Concat([i \in DOMAIN rels[t] |->
                [j \in DOMAIN rels[t][i] |->
                    [relation |-> t, field |-> rels[t][i][j][1],
                     value |-> rels[t][i][j][2]]]])])

\* any(it.get(key) == v for it in items)
EVHasValue(items, key, v) == \E i \in DOMAIN items : GetAttr(items[i], key) = Str(v)

\* evaluate_relations(pred_relations, gold_path, entities) of kgeb.evaluator
KGEvaluateRelations(pred_relations, gold_relations, exists, ents) ==
    IF exists
    THEN LET per == [t \in DOMAIN EVRelArgs |->
                        LET Dumps(x) == Range(x)    \* json.dumps(x, sort_keys=True)
                            pred_set == {Dumps(x) : x \in Range(GetList(pred_relations, t))}
                            gold_set == {Dumps(x) : x \in Range(GetList(gold_relations, t))}
                        IN  [tp |-> Cardinality(pred_set \cap gold_set),
                             fp |-> Cardinality(pred_set \ gold_set),
                             fn |-> Cardinality(gold_set \ pred_set)]]
             metrics == KGPrecisionRecallF1(SumOf([t \in DOMAIN per |-> per[t].tp]),
                                            SumOf([t \in DOMAIN per |-> per[t].fp]),
                                            SumOf([t \in DOMAIN per |-> per[t].fn]))
         IN  [per_relation |-> per,
              overall |-> [relation_precision |-> metrics.precision,
                           relation_recall |-> metrics.recall,
                           relation_f1 |-> metrics.f1]]
    ELSE LET Found(ref) == \E etype \in DOMAIN ents : EVHasValue(ents[etype], "name", ref.value)
             missing_list == SelectSeq(EVRoleRefs(pred_relations), LAMBDA ref : ~Found(ref))
             Of(t) == SelectSeq(missing_list, LAMBDA ref : ref.relation = t)
         IN  [per_relation |-> <<>>, overall |-> <<>>,
              logical_consistency |->
                  [total_references |-> SumOf([t \in DOMAIN pred_relations |->
                                                   Len(pred_relations[t])]),
                   missing_references |-> Len(missing_list)],
              missing_details |->
                  [t \in {u \in DOMAIN pred_relations : Of(u) /= <<>>} |->
                      [n \in DOMAIN Of(t) |-> <<Of(t)[n].field, Of(t)[n].value>>]],
              schema_compliance |->
                  [t \in DOMAIN EVRelArgs |->
                      [passed |-> Cardinality({i \in DOMAIN GetList(pred_relations, t) :
                                      Range(EVRelArgs[t]) \subseteq
                                      {kv[1] : kv \in Range(GetList(pred_relations, t)[i])}}),
                       n |-> Len(GetList(pred_relations, t))]]]

\* check_relation_consistency(rel_path, entities_path) of src.evaluator
SXCheckRelationConsistency(rels, ents) ==
    LET type_map == [person |-> "Person", company |-> "Company", project |-> "Project",
                     team |-> "Team", product |-> "Product", client |-> "Client"]
        Found(ref) == /\ type_map[ref.field] \in DOMAIN ents
                      /\ \/ EVHasValue(ents[type_map[ref.field]], "name", ref.value)
                         \/ EVHasValue(ents[type_map[ref.field]], "project", ref.value)
        missing == SelectSeq(EVRoleRefs(rels),
                             LAMBDA ref : ref.field \in DOMAIN type_map /\ ~Found(ref))
    IN  [missing_references |-> missing, count_missing |-> Len(missing)]

\* Evaluator._build_entity_indices(entities): per type, the keys of the index
EVABuildEntityIndices(ents) ==
    [t \in DOMAIN ents |->
        {key \in {LET e == ents[t][i]
                  IN  IF Truthy(GetAttr(e, "name")) THEN GetAttr(e, "name")
                      ELSE IF Truthy(GetAttr(e, "title")) THEN GetAttr(e, "title")
                      ELSE GetAttr(e, "city") : i \in DOMAIN ents[t]} : Truthy(key)}]

\* key.lower() in entity_type.lower(): of the role keys and type names used
\* here, a key is a substring of a type name only when it is that name
EVAKeyInType(key, entity_type) ==
    key = CASE entity_type = "Person" -> "person" [] entity_type = "Company" -> "company"
            [] entity_type = "Location" -> "location" [] OTHER -> ""

\* Evaluator._check_relation_schema(relation, relation_def), also the test of
\* has_source and has_target in evaluate_relations
EVACheckRelationSchema(relation, relation_def) ==
    LET known == {"person", "company", "project", "department", "position", "technology",
                  "location", "team", "product", "client"}
        Keys(entity_type) == {kv[1] : kv \in {x \in Range(relation) :
                                 EVAKeyInType(x[1], entity_type) \/ x[1] \in known}}
    IN  Keys(relation_def.source_entity) /= {} /\ Keys(relation_def.target_entity) /= {}

\* Evaluator._check_relation_consistency(relation, relation_def, entity_indices)
EVACheckRelationConsistency(relation, relation_def, entity_indices) ==
    LET First(entity_type, known) ==
            LET hits == SelectSeq(relation, LAMBDA kv : EVAKeyInType(kv[1], entity_type)
                                                        \/ kv[1] \in known)
            IN  IF hits = <<>> THEN None ELSE Str(hits[1][2])
        source_value == First(relation_def.source_entity,
                              {"person", "company", "project", "department"})
        target_value == First(relation_def.target_entity,
                              {"person", "company", "project", "department", "location"})
        Exists(value, entity_type) ==
            /\ Truthy(value)
            /\ entity_type \in DOMAIN entity_indices
            /\ value \in entity_indices[entity_type]
    IN  /\ Exists(source_value, relation_def.source_entity)
        /\ Exists(target_value, relation_def.target_entity)

\* Evaluator.evaluate_relations(predicted, entities)
EVAEvaluateRelations(predicted, ents) ==
    LET entity_indices == EVABuildEntityIndices(ents)
        types == DOMAIN EVRelSchema
        Count(t) == Len(GetList(predicted, t))
        Compliant(t) == Cardinality({i \in DOMAIN GetList(predicted, t) :
                            EVACheckRelationSchema(GetList(predicted, t)[i], EVRelSchema[t])})
        Consistent(t) == Cardinality({i \in DOMAIN GetList(predicted, t) :
                             EVACheckRelationConsistency(GetList(predicted, t)[i],
                                                         EVRelSchema[t], entity_indices)})
        Part(k, t) == IF Count(t) > 0 THEN Frac(k, Count(t)) ELSE <<1, 1>>
        n == Cardinality(types)
        mean == IF n > 0 THEN Frac(n, n) ELSE <<0, 1>>
        total_relations == SumOf([t \in types |-> Count(t)])
        Whole(k) == IF total_relations > 0 THEN Frac(k, total_relations) ELSE <<1, 1>>
    IN  [per_type |-> [t \in types |->
                          [precision |-> <<1, 1>>, recall |-> <<1, 1>>, f1 |-> <<1, 1>>,
                           schema_compliance |-> Part(Compliant(t), t),
                           logical_consistency |-> Part(Consistent(t), t),
                           count |-> Count(t)]],
         relation_precision |-> mean, relation_recall |-> mean, relation_f1 |-> mean,
         relation_schema_compliance |-> Whole(SumOf([t \in types |-> Compliant(t)])),
         relation_logical_consistency |-> Whole(SumOf([t \in types |-> Consistent(t)]))]

\* detect_entity_conflicts(pred_entities): per type and name, the fields in
\* which a later record differs from the first record of that name, both
\* values being truthy
KGDetectEntityConflicts(pred_entities) ==
    LET First(items, i) == \A j \in 1..(i - 1) : GetAttr(items[j], "name") /= items[i].name
        Found(items, name) ==
            LET at == CHOOSE i \in DOMAIN items :
                          GetAttr(items[i], "name") = name /\ First(items, i)
            IN  Concat([i \in DOMAIN items |->
                    IF i = at \/ GetAttr(items[i], "name") /= name THEN <<>>
                    ELSE LET ks == {k \in DOMAIN items[i] :
                                       /\ Truthy(GetAttr(items[at], k)) /\ Truthy(items[i][k])
                                       /\ GetAttr(items[at], k) /= items[i][k]}
                         IN  IF ks = {} THEN <<>> ELSE <<[at |-> i, fields |-> ks]>>])
        Names(items) == {v \in {GetAttr(items[i], "name") : i \in DOMAIN items} : Truthy(v)}
        ByName(items) == [n \in {m \in Names(items) : Found(items, m) /= <<>>} |->
                             Found(items, n)]
    IN  [t \in {u \in DOMAIN pred_entities : DOMAIN ByName(pred_entities[u]) /= {}} |->
            ByName(pred_entities[t])]

\* generate_evaluation_report(entities_eval, relations_eval, method_name,
\* out_path): the report returned, which is also the content written to out_path
KGGenerateEvaluationReport(entities_eval, relations_eval, method_name, timestamp) ==
    LET predicted == IF "predicted_entities" \in DOMAIN entities_eval
                     THEN entities_eval.predicted_entities ELSE <<>>
        conflicts == IF DOMAIN predicted /= {} THEN KGDetectEntityConflicts(predicted)
                     ELSE <<>>
    IN  \* report.update(entities_eval); report.update(relations_eval); the
        \* later value of a key replaces the earlier one
        [conflicts |-> conflicts] @@ relations_eval @@ entities_eval
            @@ [method |-> method_name, timestamp |-> timestamp]

\* the relation table and the entity table load_json and the callers hand over;
\* the gold relations are the predicted ones or none
EVRelationsInit ==
    /\ program = "evaluate relations"
    /\ OthersIdle("EV")
    /\ ev_rels \in EVRelTables
    /\ ev_pred \in EVEntityTables
    /\ ev_gold \in {ev_rels, [t \in DOMAIN ev_rels |-> <<>>]}
    /\ ev_out = NotCalled

\* evaluate_relations(pred_relations, gold_path, entities) of kgeb.evaluator,
\* with the gold file and without it
KGCallEvaluateRelations ==
    /\ program = "evaluate relations"
    /\ ev_out = NotCalled
    /\ \E exists \in BOOLEAN :
          ev_out' = EVReturned("kgeb.evaluate_relations", exists,
                               KGEvaluateRelations(ev_rels, ev_gold, exists, ev_pred))
    /\ UNCHANGED <<ev_pred, ev_gold, ev_rels>>
    /\ UNCHANGED evOthers

\* check_relation_consistency(rel_path, entities_path) of src.evaluator
SXCallCheckRelationConsistency ==
    /\ program = "evaluate relations"
    /\ ev_out = NotCalled
    /\ ev_out' = EVReturned("src.check_relation_consistency", <<>>,
                            SXCheckRelationConsistency(ev_rels, ev_pred))
    /\ UNCHANGED <<ev_pred, ev_gold, ev_rels>>
    /\ UNCHANGED evOthers

\* Evaluator(entities_schema, relations_schema).evaluate_relations(predicted,
\* entities)
EVACallEvaluateRelations ==
    /\ program = "evaluate relations"
    /\ ev_out = NotCalled
    /\ ev_out' = EVReturned("Evaluator.evaluate_relations", <<>>,
                            EVAEvaluateRelations(ev_rels, ev_pred))
    /\ UNCHANGED <<ev_pred, ev_gold, ev_rels>>
    /\ UNCHANGED evOthers

\* the __main__ block of kgeb.evaluator and test_extraction_run: the report
\* of evaluate_entities and evaluate_relations, each with or without gold
KGCallGenerateEvaluationReport ==
    /\ program = "evaluate relations"
    /\ ev_out = NotCalled
    /\ \E e_gold \in BOOLEAN, r_gold \in BOOLEAN, with_predicted \in BOOLEAN :
          LET eval == KGEvaluateEntities(ev_pred, ev_pred, e_gold)
              entities_eval == IF with_predicted
                               THEN eval @@ [predicted_entities |-> ev_pred]
                               ELSE eval
              relations_eval == KGEvaluateRelations(ev_rels, ev_gold, r_gold, ev_pred)
          IN  ev_out' = EVReturned("generate_evaluation_report",
                                   [entities_eval |-> entities_eval,
                                    relations_eval |-> relations_eval],
                                   KGGenerateEvaluationReport(entities_eval, relations_eval,
                                                              "Baseline", "utcnow"))
    /\ UNCHANGED <<ev_pred, ev_gold, ev_rels>>
    /\ UNCHANGED evOthers

EVRelationsNext ==
    \/ KGCallEvaluateRelations \/ SXCallCheckRelationConsistency \/ EVACallEvaluateRelations
    \/ KGCallGenerateEvaluationReport

SpecEvalRelations == EVRelationsInit /\ [][EVRelationsNext]_vars

\* the entity type a role names, the identity key of a type, and whether a
\* value is the identity key of an entity of that type in the entity table
EVRoleType(role) == CASE role = "person" -> "Person" [] role = "company" -> "Company"
                      [] role = "location" -> "Location"
EVIdentityKey(entity_type) == IF entity_type = "Location" THEN "city" ELSE "name"
EVResolves(value, entity_type) ==
    /\ entity_type \in DOMAIN ev_pred
    /\ EVHasValue(ev_pred[entity_type], EVIdentityKey(entity_type), value)
EVUnresolved == SelectSeq(EVRoleRefs(ev_rels),
                          LAMBDA ref : ~EVResolves(ref.value, EVRoleType(ref.field)))

\* C19: every role value that is not the identity key of an entity of the
\* role's type in the entity table is in the report of unresolved references,
\* in its count and in its list, of kgeb.evaluator.evaluate_relations without
\* gold and of src.evaluator.check_relation_consistency.
C19_UnresolvedReported ==
    /\ (Called("kgeb.evaluate_relations") /\ ~ev_out.args) =>
          /\ ev_out.value.logical_consistency.missing_references >= Len(EVUnresolved)
          /\ \A ref \in Range(EVUnresolved) :
                /\ ref.relation \in DOMAIN ev_out.value.missing_details
                /\ <<ref.field, ref.value>> \in
                       Range(ev_out.value.missing_details[ref.relation])
    /\ Called("src.check_relation_consistency") =>
          /\ ev_out.value.count_missing >= Len(EVUnresolved)
          /\ Range(EVUnresolved) \subseteq Range(ev_out.value.missing_references)

\* the relations of a type whose source role and target role both hold the
\* identity key of an entity of the declared type
EVResolvedRelations(t) ==
    {i \in DOMAIN ev_rels[t] :
        \A kv \in Range(ev_rels[t][i]) :
            \/ kv[1] \notin {EVRelArgs[t][1], EVRelArgs[t][2]}
            \/ EVResolves(kv[2], EVRoleType(kv[1]))}

\* C20: Evaluator.evaluate_relations counts as logically consistent every
\* relation whose source role and target role hold the identity keys of
\* entities of the declared source and target type: the consistency of a type,
\* and the overall one, is at least the share of such relations.
C20_ResolvedIsConsistent ==
    Called("Evaluator.evaluate_relations") =>
        /\ \A t \in DOMAIN EVRelSchema :
              LET q == ev_out.value.per_type[t].logical_consistency
              IN  Len(ev_rels[t]) > 0 =>
                      q[1] * Len(ev_rels[t]) >= Cardinality(EVResolvedRelations(t)) * q[2]
        /\ LET q == ev_out.value.relation_logical_consistency
               total == SumOf([t \in DOMAIN ev_rels |-> Len(ev_rels[t])])
               good == SumOf([t \in DOMAIN ev_rels |-> Cardinality(EVResolvedRelations(t))])
           IN  total > 0 => q[1] * total >= good * q[2]

---------------------------------------------------------------------------
(* src.extractors.save_json: concurrent writers of one destination path and *)
(* a reader of it.  A file is a sequence of chunks; the directory entry of   *)
(* the destination names a file, and os.replace changes the name only.       *)

\* number of concurrent save_json calls, chunks json.dump writes per payload,
\* and reads of the destination
MaxWriters == 2
MaxChunks == 2
MaxReads == 2

\* the payload of call w, chunk by chunk; 0 is the content the destination
\* held before the calls
SJPayload(w) == [k \in 1..MaxChunks |-> <<w, k>>]

\* f.write(chunk) at the offset pos of the writer's file descriptor
SJWriteAt(content, pos, chunk) ==
    [i \in 1..(IF pos > Len(content) THEN pos ELSE Len(content)) |->
        IF i = pos THEN chunk ELSE IF i <= Len(content) THEN content[i] ELSE <<0, 0>>]

SJInit ==
    /\ program = "save_json"
    /\ OthersIdle("SJ")
    /\ sj_pc = [w \in 1..MaxWriters |-> "start"]
    /\ sj_tmp = [w \in 1..MaxWriters |-> [file |-> -1, written |-> 0]]
    /\ sj_files = [i \in 0..MaxWriters |-> IF i = 0 THEN SJPayload(0) ELSE <<>>]
    /\ sj_dest \in {-1, 0}
    /\ sj_rd = [n |-> 0, file |-> -1, buf |-> <<>>]
    /\ sj_seen = {}
    /\ sj_last = 0

\* open(path, 'w'): the writer truncates and writes the destination itself
SJOpenDestination(w) ==
    /\ sj_pc[w] = "start"
    /\ sj_pc' = [sj_pc EXCEPT ![w] = "write"]
    /\ sj_dest' = IF sj_dest = -1 THEN w ELSE sj_dest
    /\ sj_tmp' = [sj_tmp EXCEPT ![w] = [file |-> sj_dest', written |-> 0]]
    /\ sj_files' = [sj_files EXCEPT ![sj_dest'] = <<>>]
    /\ UNCHANGED <<sj_rd, sj_seen, sj_last>>
    /\ UNCHANGED sjOthers

\* fd, tmp = tempfile.mkstemp(dir=dirpath): a new, empty file under a name no
\* other call has
SJMkstemp(w) ==
    /\ sj_pc[w] = "start"
    /\ sj_pc' = [sj_pc EXCEPT ![w] = "write"]
    /\ sj_tmp' = [sj_tmp EXCEPT ![w] = [file |-> w, written |-> 0]]
    /\ sj_files' = [sj_files EXCEPT ![w] = <<>>]
    /\ UNCHANGED <<sj_dest, sj_rd, sj_seen, sj_last>>
    /\ UNCHANGED sjOthers

\* json.dump(data, f, ...): one chunk reaches the file; after the last one the
\* with block closes it
SJWrite(w) ==
    /\ sj_pc[w] = "write"
    /\ LET k == sj_tmp[w].written + 1
           f == sj_tmp[w].file
       IN  /\ sj_files' = [sj_files EXCEPT ![f] = SJWriteAt(@, k, SJPayload(w)[k])]
           /\ sj_tmp' = [sj_tmp EXCEPT ![w].written = k]
           /\ sj_pc' = [sj_pc EXCEPT ![w] = IF k = MaxChunks THEN "replace" ELSE "write"]
    /\ UNCHANGED <<sj_dest, sj_rd, sj_seen, sj_last>>
    /\ UNCHANGED sjOthers

\* os.replace(tmp, path): the destination names the writer's file from now on
SJReplace(w) ==
    /\ sj_pc[w] = "replace"
    /\ sj_dest' = sj_tmp[w].file
    /\ sj_last' = w
    /\ sj_pc' = [sj_pc EXCEPT ![w] = "done"]
    /\ UNCHANGED <<sj_tmp, sj_files, sj_rd, sj_seen>>
    /\ UNCHANGED sjOthers

\* a reader: open(path, 'r') takes the file the destination names now
SJOpen ==
    /\ sj_rd.file = -1 /\ sj_rd.n < MaxReads
    /\ sj_dest /= -1
    /\ sj_rd' = [sj_rd EXCEPT !.file = sj_dest]
    /\ UNCHANGED <<sj_pc, sj_tmp, sj_files, sj_dest, sj_seen, sj_last>>
    /\ UNCHANGED sjOthers

\* json.load(f): the reader takes the next chunk of its file, or at the end of
\* the file has read what it returns
SJRead ==
    /\ sj_rd.file /= -1
    /\ IF Len(sj_rd.buf) < Len(sj_files[sj_rd.file])
       THEN /\ sj_rd' = [sj_rd EXCEPT !.buf = Append(@, sj_files[sj_rd.file][Len(@) + 1])]
            /\ UNCHANGED sj_seen
       ELSE /\ sj_seen' = sj_seen \cup {sj_rd.buf}
            /\ sj_rd' = [n |-> sj_rd.n + 1, file |-> -1, buf |-> <<>>]
    /\ UNCHANGED <<sj_pc, sj_tmp, sj_files, sj_dest, sj_last>>
    /\ UNCHANGED sjOthers

SJNext ==
    \/ \E w \in 1..MaxWriters : SJMkstemp(w) \/ SJWrite(w) \/ SJReplace(w)
    \/ SJOpen \/ SJRead

SpecSaveJson == SJInit /\ [][SJNext]_vars

SJAllDone == \A w \in DOMAIN sj_pc : sj_pc[w] = "done"

\* C21: every read of the destination returns the whole payload of one
\* save_json call or the content held before, and once every call has ended
\* the destination holds the payload of the call that renamed last.
C21_AtomicReplace ==
    /\ sj_seen \subseteq {SJPayload(w) : w \in 0..MaxWriters}
    /\ SJAllDone => sj_files[sj_dest] = SJPayload(sj_last)

\* every call has ended, call 1 renamed last, and reads returned the prior
\* content and the payload of call 2
C21_Witness ==
    /\ SJAllDone /\ sj_last = 1
    /\ {SJPayload(0), SJPayload(2)} \subseteq sj_seen

---------------------------------------------------------------------------
(* src.extractor.extract_entities_from_text and src.cli.merge_entity_lists. *)
(* A text is the record of what the patterns capture in it: how often the   *)
(* name "John Zhang" occurs, the age near it, and the position, department, *)
(* project, money amount, team and team size mentioned (None when absent).  *)
(* The name stands before the department and the team before its size.      *)

\* the texts given to extract_entities_from_text; money is the form of the
\* amount MONEY_RE finds: "$5,000", "$5,000.50", "100 USD", or none
SXTTexts == [names : 0..2, age : {None, Num(35)}, position : {None, Str("Engineer")},
             department : {None, Str("R&D")}, project : {None, Str("X")},
             money : {"none", "dollar", "decimal", "usd"},
             team : {None, Str("Core")}, size : {None, Num(12)}]

\* the entity schema: entities.json, as ENTITY_SCHEMA of kgeb.extractor lists it
SXTSchema == [Person |-> <<"name", "age", "position", "department">>,
              Company |-> <<"name", "industry", "sector", "location">>,
              Project |-> <<"name", "start_date", "end_date", "status", "budget">>,
              Department |-> <<"name", "head", "employee_count">>,
              Position |-> <<"title", "level", "salary_range">>,
              Technology |-> <<"name", "category", "version">>,
              Location |-> <<"city", "country", "office_type">>,
              Team |-> <<"name", "size", "focus_area">>,
              Product |-> <<"name", "version", "release_date">>,
              Client |-> <<"name", "contract_value", "industry">>]

\* str(v) of a value
PyStr(v) == IF v = None THEN "None" ELSE IF v[1] = "int" THEN ToString(v[2]) ELSE v[2]

\* tuple(sorted(str(v) for v in e.values())): the strings with their counts
SXCKey(e) ==
    LET strs == {PyStr(e[k]) : k \in DOMAIN e}
    IN  [s \in strs |-> Cardinality({k \in DOMAIN e : PyStr(e[k]) = s})]

\* merge_entity_lists(lists_of_dicts), also the loop that ends
\* extract_entities_from_text: a record is kept unless an earlier one has its key
SXCMergeEntityLists(lists_of_dicts) ==
    LET Fresh(i) == \A j \in 1..(i - 1) : SXCKey(lists_of_dicts[j]) /= SXCKey(lists_of_dicts[i])
        kept == SelectSeq([i \in DOMAIN lists_of_dicts |-> i], Fresh)
    IN  [n \in DOMAIN kept |-> lists_of_dicts[kept[n]]]

\* _first_or_none(match): match is None, a match object <<"match", groups>> or,
\* as two callers pass it, the tuple of groups <<"tuple", groups>>, which has
\* no method groups()
SXTFirstOrNone(match) ==
    IF match = None \/ match[2] = <<>> THEN ReturnedValue(None)
    ELSE IF match[1] = "tuple" THEN Raised
    ELSE LET found == SelectSeq(match[2], Truthy)
         IN  ReturnedValue(IF found = <<>> THEN None ELSE found[1])

\* a record of the type with every attribute None, then the ones given
SXTEntity(type, given) ==
    [a \in Range(SXTSchema[type]) |-> IF a \in DOMAIN given THEN given[a] ELSE None]

\* extract_entities_from_text(text, schema): Raised, or the table returned
SXTExtractEntitiesFromText(text) ==
    LET pos == IF text.position = None THEN None
               ELSE <<"match", <<text.position, None>>>>
        \* line 60: _first_or_none(pos.groups()) if pos else None
        position == IF pos = None THEN ReturnedValue(None)
                    ELSE SXTFirstOrNone(<<"tuple", pos[2]>>)
        persons == [n \in 1..text.names |->
                       SXTEntity("Person",
                           [name |-> Str("John Zhang"), age |-> text.age,
                            position |-> IF Returned(position) THEN position.value ELSE None,
                            department |-> text.department])]
        \* line 90: int(budget_match.group(1).replace(',', ''))
        budget == CASE text.money = "none" -> ReturnedValue(None)
                    [] text.money = "dollar" -> ReturnedValue(Num(5000))
                    [] text.money = "decimal" -> Raised    \* int("5000.50")
                    [] text.money = "usd" -> Raised        \* group(1) is None
        projects == IF text.project = None THEN <<>>
                    ELSE <<SXTEntity("Project",
                               [name |-> text.project,
                                budget |-> IF Returned(budget) THEN budget.value ELSE None])>>
        departments == IF text.department = None THEN <<>>
                       ELSE <<SXTEntity("Department", [name |-> text.department])>>
        \* line 122: int(_first_or_none(size.groups())) if size else None
        size == IF text.size = None THEN ReturnedValue(None)
                ELSE SXTFirstOrNone(<<"tuple", <<text.size, None>>>>)
        teams == IF text.team = None THEN <<>>
                 ELSE <<SXTEntity("Team",
                            [name |-> text.team,
                             size |-> IF Returned(size) THEN size.value ELSE None])>>
        positions == IF text.position = None THEN <<>>
                     ELSE <<SXTEntity("Position", [title |-> text.position])>>
        result == [t \in DOMAIN SXTSchema |->
                      CASE t = "Person" -> persons [] t = "Project" -> projects
                        [] t = "Department" -> departments [] t = "Team" -> teams
                        [] t = "Position" -> positions [] OTHER -> <<>>]
    IN  IF \/ text.names > 0 /\ ~Returned(position)
           \/ text.project /= None /\ ~Returned(budget)
           \/ text.team /= None /\ ~Returned(size)
        THEN Raised
        ELSE ReturnedValue([t \in DOMAIN result |-> SXCMergeEntityLists(result[t])])

\* a call of fn with args that raised, and one that returned value
CLRaised(fn, args) == [status |-> "raised", fn |-> fn, args |-> args]
CLReturned(fn, args, value) == [status |-> "returned", fn |-> fn, args |-> args, value |-> value]

\* longest list given to merge_entity_lists and most documents in a run
MaxMerge == 2
MaxDocs == 2

\* records given to merge_entity_lists
SXCRecords == {[person |-> Str("A"), company |-> Str("B")],
               [person |-> Str("B"), company |-> Str("A")],
               [name |-> Str("T"), size |-> Num(1)],
               [name |-> Str("T"), size |-> Str("1")]}

SXTInit ==
    /\ program = "src.extractor"
    /\ OthersIdle("CL")
    /\ cl_docs = <<>> /\ cl_exists = <<>> /\ cl_fs = <<>>
    /\ cl_out = NotCalled

\* extract_entities_from_text(text, schema) on a text
SXTCallExtractEntitiesFromText ==
    /\ program = "src.extractor"
    /\ cl_out = NotCalled
    /\ \E text \in SXTTexts :
          LET out == SXTExtractEntitiesFromText(text)
          IN  cl_out' = IF Returned(out)
                        THEN CLReturned("extract_entities_from_text", text, out.value)
                        ELSE CLRaised("extract_entities_from_text", text)
    /\ UNCHANGED <<cl_docs, cl_exists, cl_fs>>
    /\ UNCHANGED clOthers

\* merge_entity_lists(lists_of_dicts) on a list
SXCCallMergeEntityLists ==
    /\ program = "src.extractor"
    /\ cl_out = NotCalled
    /\ \E l \in SeqsUpTo(SXCRecords, MaxMerge) :
          cl_out' = CLReturned("merge_entity_lists", l, SXCMergeEntityLists(l))
    /\ UNCHANGED <<cl_docs, cl_exists, cl_fs>>
    /\ UNCHANGED clOthers

SXTNext == SXTCallExtractEntitiesFromText \/ SXCCallMergeEntityLists

SpecSrcExtractor == SXTInit /\ [][SXTNext]_vars

CLCalled(fn) == cl_out /= NotCalled /\ cl_out.fn = fn

\* C24: extract_entities_from_text never raises: for every text it returns a
\* table with one list per type of the schema.
C24_NeverRaises ==
    CLCalled("extract_entities_from_text") =>
        /\ Returned(cl_out)
        /\ DOMAIN cl_out.value = DOMAIN SXTSchema

\* C30: merge_entity_lists drops a record only when a record with the same
\* keys and values was kept before it: every record of the input is in the
\* output.
C30_DropsOnlyIdentical ==
    CLCalled("merge_entity_lists") => Range(cl_out.args) \subseteq Range(cl_out.value)

---------------------------------------------------------------------------
(* The command-line runs: src.cli.main and kgeb.cli.run.  cl_exists says of *)
(* every input path whether its file exists ("exists", "missing") and, for  *)
(* the gold paths, whether the path was passed at all ("none").  What the    *)
(* relation extractors and the extractors of kgeb write is not modelled      *)
(* further than a name for the content.                                      *)

\* the documents of a run of src.cli: texts with a person, one of them with a
\* position
SXCDocs == {t \in SXTTexts :
               /\ t.names = 1 /\ t.money = "none" /\ t.team = None /\ t.size = None
               /\ t.project = None
               /\ t.position /= None => (t.age = None /\ t.department = None)}

CLInit ==
    /\ program = "cli"
    /\ OthersIdle("CL")
    /\ cl_docs \in SeqsUpTo(SXCDocs, MaxDocs)
    /\ cl_exists \in [documents : {"exists", "missing"}, entities : {"exists", "missing"},
                      relations : {"exists", "missing"},
                      gold_entities : {"none", "exists", "missing"},
                      gold_relations : {"none", "exists", "missing"}]
    /\ cl_fs = <<>>
    /\ cl_out = NotCalled

\* for d in docs: combined_entities[k].extend(extract_entities_from_text(d)[k]),
\* then merge_entity_lists on every list: Raised when a document raises
SXCCombinedEntities(docs) ==
    LET ents == [i \in DOMAIN docs |-> SXTExtractEntitiesFromText(docs[i])]
    IN  IF \E i \in DOMAIN ents : ~Returned(ents[i]) THEN Raised
        ELSE ReturnedValue([k \in DOMAIN SXTSchema |->
                 SXCMergeEntityLists(Concat([i \in DOMAIN ents |-> ents[i].value[k]]))])

\* main() of src.cli: the inputs are loaded, the documents extracted and
\* merged, both outputs written, and only then the gold files read; what the
\* evaluation does after that is open (evaluated)
SXCMain ==
    /\ program = "cli"
    /\ cl_out = NotCalled
    /\ LET combined == SXCCombinedEntities(cl_docs)
           outputs == [entities_output |-> combined.value,
                       relations_output |-> "combined_relations"]
           gold == {cl_exists.gold_entities, cl_exists.gold_relations}
       IN  IF \/ "missing" \in {cl_exists.documents, cl_exists.entities, cl_exists.relations}
              \/ ~Returned(combined)
           THEN cl_out' = CLRaised("main", cl_exists) /\ cl_fs' = cl_fs
           ELSE IF gold = {"none"}
           THEN cl_out' = CLReturned("main", cl_exists, None) /\ cl_fs' = outputs
           ELSE IF "missing" \in gold
           THEN cl_out' = CLRaised("main", cl_exists) /\ cl_fs' = outputs
           ELSE \E evaluated \in BOOLEAN :
                   IF evaluated
                   THEN /\ cl_out' = CLReturned("main", cl_exists, None)
                        /\ cl_fs' = outputs @@ [evaluation_report |-> "report"]
                   ELSE cl_out' = CLRaised("main", cl_exists) /\ cl_fs' = outputs
    /\ UNCHANGED <<cl_docs, cl_exists>>
    /\ UNCHANGED clOthers

\* run(args) of kgeb.cli: documents and schema are loaded, the documents
\* extract_ok (extract_ok: without raising), both outputs written, and the gold
\* files loaded only when both paths are passed
KGCliRun ==
    /\ program = "cli"
    /\ cl_out = NotCalled
    /\ \E extract_ok \in BOOLEAN, evaluated \in BOOLEAN :
          LET outputs == [entities_output |-> "all_pred_entities",
                          relations_output |-> "all_pred_relations"]
              gold == {cl_exists.gold_entities, cl_exists.gold_relations}
          IN  IF "missing" \in {cl_exists.documents, cl_exists.entities} \/ ~extract_ok
              THEN cl_out' = CLRaised("run", cl_exists) /\ cl_fs' = cl_fs
              ELSE IF "none" \in gold
              THEN cl_out' = CLReturned("run", cl_exists, None) /\ cl_fs' = outputs
              ELSE IF "missing" \in gold \/ ~evaluated
              THEN cl_out' = CLRaised("run", cl_exists) /\ cl_fs' = outputs
              ELSE /\ cl_out' = CLReturned("run", cl_exists, None)
                   /\ cl_fs' = outputs @@ [evaluation_report |-> "report"]
    /\ UNCHANGED <<cl_docs, cl_exists>>
    /\ UNCHANGED clOthers

CLNext == SXCMain \/ KGCliRun

SpecCli == CLInit /\ [][CLNext]_vars

\* C22: when a gold path passed to kgeb.cli.run or to src.cli.main names no
\* file, the run raises and has written neither the entities output nor the
\* relations output.
C22_NoPartialOutput ==
    ((CLCalled("run") \/ CLCalled("main"))
        /\ "missing" \in {cl_exists.gold_entities, cl_exists.gold_relations}) =>
        /\ cl_out.status = "raised"
        /\ DOMAIN cl_fs \cap {"entities_output", "relations_output"} = {}

\* C25: after the documents were extracted one by one, their lists
\* concatenated and merge_entity_lists applied, no two Person records have the
\* same name.
C25_UniquePersonNames ==
    (CLCalled("main") /\ "entities_output" \in DOMAIN cl_fs) =>
        LET persons == cl_fs.entities_output.Person
        IN  \A i, j \in DOMAIN persons : persons[i].name = persons[j].name => i = j

---------------------------------------------------------------------------
(* Relation extraction under a schema that lacks an emitted type:           *)
(* kgeb.extractors.extract_relations and RelationExtractor.extract_from_text *)

MismatchInit == KRInit \/ REInit

MismatchNext ==
    \/ KRExtractFirst \/ KRExtractSecond
    \/ program = "relation_extractor" /\ REExtractFromText

SpecSchemaMismatch == MismatchInit /\ [][MismatchNext]_vars

\* C23: a line that yields a relation of a type the loaded relations schema
\* does not declare ends neither kgeb.extractors.extract_relations nor
\* RelationExtractor.extract_from_text with an exception, and the record is
\* emitted all the same.
C23_SchemaMismatchNotFatal ==
    /\ (/\ kr_out /= NotCalled
        /\ "WorksAt" \notin relations_schema
        /\ \E i \in DOMAIN rel_lines : rel_lines[i].kind = "works") =>
          /\ Returned(kr_out)
          /\ \A i \in DOMAIN rel_lines :
                rel_lines[i].kind = "works" =>
                    [person |-> rel_lines[i].name, company |-> rel_lines[i].company]
                        \in Range(GetList(kr_out.value, "WorksAt"))
    /\ (/\ re_result /= NotCalled
        /\ \E t \in RETypes : re_log[t] /= <<>> /\ t \notin DOMAIN re.extracted_relations) =>
          /\ Returned(re_result)
          /\ \A t \in RETypes :
                Range(re_log[t]) \subseteq Range(GetList(re_result.value, t))

---------------------------------------------------------------------------
(* Conflict detection: kgeb.evaluator.detect_entity_conflicts *)

MaxConflictRecords == 3

\* predicted Person records that share a name and differ in a field, as in
\* test_detect_conflicts, with and without the field on the first record
EVConflictPersons ==
    {[name |-> Str("Ann")],
     [name |-> Str("Ann"), age |-> Num(30)],
     [name |-> Str("Ann"), age |-> Num(31)],
     [name |-> Str("Ann"), age |-> Num(0)],
     [name |-> Str("Bob"), age |-> Num(30)]}

EVConflictsInit ==
    /\ program = "detect_entity_conflicts"
    /\ OthersIdle("EV")
    /\ ev_pred \in [Person : SeqsUpTo(EVConflictPersons, MaxConflictRecords)]
    /\ ev_gold = <<>> /\ ev_rels = <<>>
    /\ ev_out = NotCalled

KGCallDetectEntityConflicts ==
    /\ program = "detect_entity_conflicts"
    /\ ev_out = NotCalled
    /\ ev_out' = EVReturned("detect_entity_conflicts", ev_pred,
                            KGDetectEntityConflicts(ev_pred))
    /\ UNCHANGED <<ev_pred, ev_gold, ev_rels>>
    /\ UNCHANGED evOthers

SpecConflicts == EVConflictsInit /\ [][KGCallDetectEntityConflicts]_vars

\* C26: whenever a type holds two records of one name with different
\* non-null values of one field, the conflicts map of
\* detect_entity_conflicts holds that type and that name.
C26_ConflictsComplete ==
    Called("detect_entity_conflicts") =>
        \A t \in DOMAIN ev_pred :
            \A i, j \in DOMAIN ev_pred[t] :
                (/\ i < j
                 /\ ev_pred[t][i].name = ev_pred[t][j].name
                 /\ \E k \in DOMAIN ev_pred[t][i] \cap DOMAIN ev_pred[t][j] :
                       /\ ev_pred[t][i][k] /= None /\ ev_pred[t][j][k] /= None
                       /\ ev_pred[t][i][k] /= ev_pred[t][j][k])
                => /\ t \in DOMAIN ev_out.value
                   /\ ev_pred[t][i].name \in DOMAIN ev_out.value[t]

---------------------------------------------------------------------------
(* Claims on the evaluation report *)

\* C27: the report of generate_evaluation_report holds the aggregate metrics
\* and the schema-compliance percentage of the entity evaluation unchanged,
\* next to method, timestamp and conflicts.
C27_ReportKeepsEntityEvaluation ==
    Called("generate_evaluation_report") =>
        LET report == ev_out.value
            entities_eval == ev_out.args.entities_eval
        IN  /\ {"method", "timestamp", "conflicts", "overall"} \subseteq DOMAIN report
            \* the values are of different Python types (str, dict): compared
            \* as printed
            /\ ToString(report.overall) = ToString(entities_eval.overall)
            /\ "schema_compliance" \in DOMAIN entities_eval =>
                  ToString(report.schema_compliance)
                      = ToString(entities_eval.schema_compliance)

---------------------------------------------------------------------------
(* Claims on the derived Department entities of entity_extraction *)

\* C28: the Department list of extract_all holds exactly one record per
\* distinct department value of the Person records, and each employee_count
\* is the number of distinct Person names of that department, also for texts
\* that repeat a works-at sentence.
C28_DepartmentCountsDistinctPersons ==
    Returned(ee_out) =>
        LET persons == ee_out.value.Person
            departments == ee_out.value.Department
            NamesOf(d) == {persons[i].name : i \in {j \in DOMAIN persons :
                                                       persons[j].department = d}}
        IN  /\ {departments[i].name : i \in DOMAIN departments}
                   = {persons[i].department : i \in DOMAIN persons}
            /\ \A i, j \in DOMAIN departments :
                   departments[i].name = departments[j].name => i = j
            /\ \A i \in DOMAIN departments :
                   departments[i].employee_count
                       = Num(Cardinality(NamesOf(departments[i].name)))

---------------------------------------------------------------------------
(* Claims on re-processing by one entity_extractor.EntityExtractor *)

\* C29: extract_from_text with a text that the instance has already
\* processed adds no record to extracted_entities, modifies none and leaves
\* seen_entities unchanged, whatever was processed in between.
C29_ReprocessIdempotent ==
    [][(program = "entity_extractor" /\ ex_last'.text \in DOMAIN ex_texts)
          => /\ ex'[1].extracted_entities = ex[1].extracted_entities
             /\ ex'[1].seen_entities = ex[1].seen_entities
             /\ ex_last'.value = ex[1].extracted_entities]_vars

\* a text with a matching line was given a second time, after another text
C29_Witness ==
    /\ Returned(ex_last)
    /\ ex_last.text \in DOMAIN ex_texts /\ ex_texts[ex_last.text] = 2
    /\ \E i \in DOMAIN ex_last.text : EXMatch(ex_last.text[i], ex_last.now) /= NoMatch
    /\ \E other \in DOMAIN ex_texts :
          /\ other /= ex_last.text
          /\ \E i \in DOMAIN other : EXMatch(other[i], ex_last.now) /= NoMatch
    /\ ex_last.value = ex_last.before

====
